---- MODULE Spec2Model ----
(***************************************************************************)
(* Model of bin/dm-proc-ea.py (empathic-accuracy behavioural pipeline).    *)
(*                                                                         *)
(* Conventions.                                                            *)
(*  - A numpy record array or a Python list is a TLA+ sequence (1-based);  *)
(*    np.hstack of record arrays is concatenation.                         *)
(*  - A text field (code, block name) is a sequence of one-character       *)
(*    strings, so that s[0], s[-1], `in` and lower() are computed.         *)
(*  - Times are integer ticks (1/10000 s).  A value the code holds in      *)
(*    seconds (x / 10000.0) is kept as its numerator in ticks; arithmetic  *)
(*    is exact.                                                            *)
(*  - A series that went through interpolation is kept as                  *)
(*    [scale |-> s, v |-> <<...>>], standing for the values v[k] / s.      *)
(*  - An output file is the sequence of the characters written to it;     *)
(*    numbers are formatted from their exact values.                       *)
(*  - A raised exception is recorded in err and ends the function         *)
(*    (pc = "raised").  Plotting calls are side outputs and not modelled.  *)
(***************************************************************************)
EXTENDS Integers, Sequences, FiniteSets, TLC

VARIABLES
    pic, res, vid,          \* the three event streams of the log being read
    trial_type,             \* selector passed to process_behav_data
    pc,                     \* position inside process_behav_data
    err,                    \* exception raised ("none" when none)
    res_final, mri_start,   \* log_parser's results
    blocks, onsets,         \* find_blocks' results
    i,                      \* block loop index (0-based, as in the code)
    subj_rate, n_pushes,    \* find_ratings' results for block i
    gold_rate, duration,    \* reference lookups for block i
    onsets_used, durations, correlations, button_pushes,  \* result lists
    subjects, sub_i, logs, log_i, main_pc,   \* main's batch loop
    f1,                     \* subject whose files the handles f1, f2 denote
    timing, csv, glm,       \* per-subject output files under data/ea
    completed,              \* subjects that have a <sub>_complete.log
    niftis,                 \* process_functional_data: the nifti listing
    EA_data, func_pc,       \* process_functional_data: the EA runs
    nii_dir,                \* dm-qc-report.py: the names listed under nii
    human_commands, phantom_commands,        \* qc_all_scans' two lists
    commands, chained, cmd_i, jobname, lastjob,  \* submit_qc_jobs' locals
    qsub,                   \* the qsub invocations made so far
    job_state,              \* the queue: state of each submitted job
    qc_pc,                  \* position inside qc_all_scans
    checklist,              \* the file checklist.csv
    html,                   \* the page qc_<id>.html of each subject
    REWRITE,                \* the global set from --rewrite
    subject,                \* the subject qc_subject is called for
    qc_report, retry,       \* add_report_to_checklist's arguments
    attempts,               \* writes tried since the outermost call
    rep_pc                  \* position inside qc_subject

pbd_vars == <<pic, res, vid, trial_type, pc, err, res_final, mri_start,
              blocks, onsets, i, subj_rate, n_pushes, gold_rate, duration,
              onsets_used, durations, correlations, button_pushes>>
func_vars == <<niftis, EA_data, func_pc>>
qc_vars == <<nii_dir, human_commands, phantom_commands, commands, chained,
             cmd_i, jobname, lastjob, qsub, job_state, qc_pc>>
report_vars == <<checklist, html, REWRITE, subject, qc_report, retry,
                 attempts, rep_pc>>
main_vars == <<subjects, sub_i, logs, log_i, main_pc, f1, timing, csv, glm,
               completed, func_vars, qc_vars, report_vars>>
vars == <<pbd_vars, main_vars>>

----------------------------------------------------------------------------
(* Bounds of the input sets.                                               *)
MaxRes == 3          \* Response lines per log
MaxVid == 2          \* Video lines per log
MaxResTrial == 2     \* largest trial index of a Response line
MaxVidTrial == 2     \* largest trial index of a Video line
MaxPicTrial == 3     \* largest trial index of a rating Picture line
MaxPic == 2          \* rating Picture lines per log (after the first line)
MaxSubjects == 2     \* subjects in the batch
MaxLogs == 2         \* behavioural logs of one subject

(* Program constants.                                                      *)
TicksPerSecond == 10000
TR == 2
Neutral == 5

----------------------------------------------------------------------------
(* Text helpers.                                                           *)
Str_MRI_start == <<"M", "R", "I", "_", "s", "t", "a", "r", "t">>
Str_102 == <<"1", "0", "2">>
Str_103 == <<"1", "0", "3">>
Str_104 == <<"1", "0", "4">>
Str_vid_1 == <<"v", "i", "d", "_", "1">>
Str_cvid_1 == <<"c", "v", "i", "d", "_", "1">>
Str_vid_9 == <<"v", "i", "d", "_", "9">>
Rating(d) == <<"r", "a", "t", "e", "_", d>>

Digits == <<"0", "1", "2", "3", "4", "5", "6", "7", "8", "9">>
IsDigit(c) == \E d \in 1..10 : Digits[d] = c
IntOfChar_ord(c) == (CHOOSE d \in 1..10 : Digits[d] = c) + 47
\* int(c) for a one-character string
IntOfChar(c) == (CHOOSE d \in 1..10 : Digits[d] = c) - 1

\* Python `sub in s` on strings
Contains(s, sub) ==
    \E k \in 1..(Len(s) - Len(sub) + 1) : SubSeq(s, k, k + Len(sub) - 1) = sub

LowerChar(c) == CASE c = "V" -> "v" [] c = "C" -> "c" [] c = "I" -> "i"
                  [] c = "D" -> "d" [] OTHER -> c
Lower(s) == [k \in 1..Len(s) |-> LowerChar(s[k])]

RECURSIVE SeqSum(_)
SeqSum(s) == IF s = <<>> THEN 0 ELSE Head(s) + SeqSum(Tail(s))
Repeat(x, n) == [k \in 1..n |-> x]
MaxOf(a, b) == IF a >= b THEN a ELSE b

----------------------------------------------------------------------------
(* log_parser                                                              *)

RECURSIVE DedupLoop(_, _, _, _)
DedupLoop(r, k, previously_seen, acc) ==
    IF k > Len(r) THEN acc
    ELSE IF r[k].trial # previously_seen
         THEN DedupLoop(r, k + 1, r[k].trial, Append(acc, r[k]))
         ELSE DedupLoop(r, k + 1, previously_seen, acc)

\* lines 71-77: res_final starts as res[0]; a row is appended whenever its
\* trial differs from the trial seen last.
remove_duplicates_twice(r) == DedupLoop(r, 1, 0, <<r[1]>>)
remove_duplicates(r) == DedupLoop(r, 1, r[1].trial, <<r[1]>>)

NoResult == [err |-> "none", pic |-> <<>>, res |-> <<>>, vid |-> <<>>,
             mri_start |-> 0]

log_parser_lastanchor(p, r, v) ==
    IF r = <<>> \/ p = <<>> THEN [NoResult EXCEPT !.err = "IndexError"]
    ELSE IF p[1].code # Str_MRI_start
         THEN [NoResult EXCEPT !.err = "ValueError"]
         ELSE [err |-> "none", pic |-> p, res |-> remove_duplicates(r),
               vid |-> v, mri_start |-> r[Len(r)].time]
\* lines 26-95.  res[0] (line 72) and pic[0] (line 89) raise IndexError on an
\* empty stream, before / instead of the anchor check.
log_parser(p, r, v) ==
    IF r = <<>> \/ p = <<>> THEN [NoResult EXCEPT !.err = "IndexError"]
    ELSE IF p[1].code # Str_MRI_start
         THEN [NoResult EXCEPT !.err = "ValueError"]
         ELSE [err |-> "none", pic |-> p, res |-> remove_duplicates(r),
               vid |-> v, mri_start |-> remove_duplicates(r)[1].time]

----------------------------------------------------------------------------
(* find_blocks                                                             *)

RECURSIVE BlocksLoop(_, _, _, _)
BlocksLoop(v, start, k, acc) ==
    IF k > Len(v) THEN acc
    ELSE BlocksLoop(v, start, k + 1,
                    Append(acc, <<v[k].trial, v[k].code, v[k].time - start>>))

find_blocks_abs(v, start) ==
    LET b == BlocksLoop(v, 0, 1, <<>>)
    IN  [blocks |-> b, onsets |-> [k \in 1..Len(b) |-> b[k][3]]]
\* lines 97-119.  A block is (trial, code, start); start is kept in ticks,
\* standing for (time - mri_start) / 10000.0 seconds.
find_blocks(v, start) ==
    LET b == BlocksLoop(v, start, 1, <<>>)
    IN  [blocks |-> b, onsets |-> [k \in 1..Len(b) |-> b[k][3]]]

----------------------------------------------------------------------------
(* find_ratings                                                            *)

None == -1

\* np.round(d / m) for integers d, m > 0: round half to even
RoundHalfEven(d, m) ==
    LET q == d \div m
        r == d % m
    IN  IF 2 * r < m THEN q
        ELSE IF 2 * r > m THEN q + 1
        ELSE IF q % 2 = 0 THEN q ELSE q + 1

TrialRange_inclusive(r, blk_start, blk_end) ==
    IF blk_end = None THEN blk_start..(r[Len(r)].trial)
    ELSE blk_start..blk_end
\* lines 135-140: the trial indices np.linspace enumerates; a count that is
\* not positive is taken to give the empty array (numpy of the code's time)
TrialRange(r, blk_start, blk_end) ==
    IF blk_end = None THEN blk_start..(r[Len(r)].trial)
    ELSE blk_start..(blk_end - 1)

IsButtonPush_all(s) == Contains(s.code, Str_104) \/ Contains(s.code, Str_102)
\* lines 151-152
IsButtonPush(s) == Contains(s.code, Str_103) \/ Contains(s.code, Str_102)

RECURSIVE RatingsLoop_current(_, _, _, _, _, _)
RatingsLoop_current(response_list, picture_list, blk_start_time, k, previous_rating, ratings) ==
    IF k > Len(response_list) THEN [err |-> "none", ratings |-> ratings]
    ELSE IF picture_list = <<>>
    THEN [err |-> "IndexError", ratings |-> <<>>]
    ELSE
      LET np == Len(picture_list)
          rating == IF k <= np THEN picture_list[k].code
                    ELSE picture_list[np].code
          delta_time ==
              IF k = 1 THEN picture_list[1].time - blk_start_time
              ELSE IF k <= np
                   THEN picture_list[k].time - picture_list[k - 1].time
                   ELSE response_list[k].time - response_list[k - 1].time
          n_events == RoundHalfEven(delta_time, TR * TicksPerSecond)
          n == IF n_events > 0 THEN n_events ELSE 0
      IN  IF k = 1
          THEN RatingsLoop_current(response_list, picture_list,
                                   blk_start_time, k + 1, Neutral,
                                   ratings \o Repeat(Neutral, n))
          ELSE IF ~IsDigit(rating[Len(rating)])
          THEN [err |-> "ValueError", ratings |-> <<>>]
          ELSE RatingsLoop_current(response_list, picture_list,
                                   blk_start_time, k + 1,
                                   IntOfChar(rating[Len(rating)]),
                                   ratings \o Repeat(IntOfChar(rating[Len(rating)]), n))
\* lines 166-234, one iteration per position k (k = i + 1) of response_list
RECURSIVE RatingsLoop(_, _, _, _, _, _)
RatingsLoop(response_list, picture_list, blk_start_time, k, previous_rating, ratings) ==
    IF k > Len(response_list) THEN [err |-> "none", ratings |-> ratings]
    ELSE IF picture_list = <<>>
    THEN [err |-> "IndexError", ratings |-> <<>>]      \* lines 191, 199
    ELSE
      LET np == Len(picture_list)
          rating == IF k <= np THEN picture_list[k].code
                    ELSE picture_list[np].code           \* lines 185-191
          delta_time ==
              IF k = 1 THEN picture_list[1].time - blk_start_time
              ELSE IF k <= np
                   THEN picture_list[k].time - picture_list[k - 1].time
                   ELSE response_list[k].time - response_list[k - 1].time
          n_events == RoundHalfEven(delta_time, TR * TicksPerSecond)
          n == IF n_events > 0 THEN n_events ELSE 0
      IN  IF k = 1
          THEN RatingsLoop(response_list, picture_list, blk_start_time, k + 1,
                           Neutral, ratings \o Repeat(Neutral, n))
          ELSE IF ~IsDigit(rating[Len(rating)])
          THEN [err |-> "ValueError", ratings |-> <<>>]  \* line 230
          ELSE RatingsLoop(response_list, picture_list, blk_start_time, k + 1,
                           IntOfChar(rating[Len(rating)]),
                           ratings \o Repeat(previous_rating, n))

Selected(r, blk_start, blk_end) ==
    SelectSeq(r, LAMBDA s : s.trial \in TrialRange(r, blk_start, blk_end))

ComparisonSet(sel) ==
    <<sel[1]>> \o SelectSeq(sel, IsButtonPush) \o <<sel[Len(sel)]>>

\* lines 121-239; the result is (ratings, number of button pushes) or an
\* exception.  blk_start_time is in ticks.
find_ratings(r, p, blk_start, blk_end, start, blk_start_time) ==
    LET sel == Selected(r, blk_start, blk_end)
    IN  IF sel = <<>>
        THEN [err |-> "none", ratings |-> <<Neutral>>, n_pushes |-> 0]
        ELSE
          LET response_list == ComparisonSet(sel)
              trial_list == {response_list[k].trial + 1 :
                                 k \in 1..Len(response_list)}
              picture_list == SelectSeq(p, LAMBDA s : s.trial \in trial_list)
              out == RatingsLoop(response_list, picture_list, blk_start_time,
                                 1, Neutral, <<>>)
          IN  [err |-> out.err, ratings |-> out.ratings,
               n_pushes |-> IF out.err = "none"
                            THEN Len(SelectSeq(sel, IsButtonPush)) ELSE 0]

----------------------------------------------------------------------------
(* Reference tables (assets/EA-timing.csv, assets/EA-vid-lengths.csv):     *)
(* lower-case column name |-> finite entries of the column.                *)
EA_timing == (Str_vid_1 :> <<5, 6, 7, 8>>) @@ (Str_cvid_1 :> <<4, 6>>)
EA_vid_lengths == (Str_vid_1 :> <<8>>) @@ (Str_cvid_1 :> <<6>>)

\* lines 254-281: the column whose lower-cased header equals the lower-cased
\* block name; no such column gives an empty array.
find_column_data(blk_name, table) ==
    IF Lower(blk_name) \in DOMAIN table THEN table[Lower(blk_name)] ELSE <<>>

Series(v) == [scale |-> 1, v |-> v]
SLen(s) == Len(s.v)

\* value (times (la - 1)) of b interpolated at j * (lb - 1) / (la - 1)
InterpAt(bv, la, j) ==
    LET lb == Len(bv)
        k == (j * (lb - 1)) \div (la - 1)
    IN  IF k >= lb - 1 THEN bv[lb] * (la - 1)
        ELSE bv[k + 1] * (la - 1)
             + (j * (lb - 1) - k * (la - 1)) * (bv[k + 2] - bv[k + 1])

match_lengths_open(a, b) ==
    IF SLen(b) < 2 THEN [err |-> "ValueError", b |-> b]
    ELSE [err |-> "none",
          b |-> [scale |-> b.scale * SLen(a),
                 v |-> [j \in 1..SLen(a) |->
                          LET k == ((j - 1) * (SLen(b) - 1)) \div SLen(a)
                          IN  b.v[k + 1] * SLen(a)
                              + ((j - 1) * (SLen(b) - 1) - k * SLen(a))
                                * (b.v[k + 2] - b.v[k + 1])]]]
\* lines 283-291.  interp1d needs at least two points (ValueError otherwise);
\* b is evaluated at np.linspace(0, len(b)-1, len(a)).
match_lengths(a, b) ==
    IF SLen(b) < 2 THEN [err |-> "ValueError", b |-> b]
    ELSE IF SLen(a) = 1
    THEN [err |-> "none", b |-> [scale |-> b.scale, v |-> <<b.v[1]>>]]
    ELSE [err |-> "none",
          b |-> [scale |-> b.scale * (SLen(a) - 1),
                 v |-> [j \in 1..SLen(a) |-> InterpAt(b.v, SLen(a), j - 1)]]]

align_keep_trace(subj, pushes, gold) ==
    IF SLen(subj) < SLen(gold)
    THEN LET m == match_lengths(gold, subj)
         IN  [err |-> m.err, subj |-> m.b, gold |-> gold]
    ELSE IF SLen(subj) > SLen(gold)
    THEN LET m == match_lengths(subj, gold)
         IN  [err |-> m.err, subj |-> subj, gold |-> m.b]
    ELSE [err |-> "none", subj |-> subj, gold |-> gold]
align_own_length(subj, pushes, gold) ==
    IF pushes # 0
    THEN IF SLen(subj) < SLen(gold)
         THEN LET m == match_lengths(gold, subj)
              IN  [err |-> m.err, subj |-> m.b, gold |-> gold]
         ELSE IF SLen(subj) > SLen(gold)
         THEN LET m == match_lengths(subj, gold)
              IN  [err |-> m.err, subj |-> subj, gold |-> m.b]
         ELSE [err |-> "none", subj |-> subj, gold |-> gold]
    ELSE [err |-> "none", subj |-> Series(Repeat(Neutral, SLen(subj))),
          gold |-> gold]
\* lines 364-372
align(subj, pushes, gold) ==
    IF pushes # 0
    THEN IF SLen(subj) < SLen(gold)
         THEN LET m == match_lengths(gold, subj)
              IN  [err |-> m.err, subj |-> m.b, gold |-> gold]
         ELSE IF SLen(subj) > SLen(gold)
         THEN LET m == match_lengths(subj, gold)
              IN  [err |-> m.err, subj |-> subj, gold |-> m.b]
         ELSE [err |-> "none", subj |-> subj, gold |-> gold]
    ELSE [err |-> "none", subj |-> Series(Repeat(Neutral, SLen(gold))),
          gold |-> gold]

Dot(x, y) == SeqSum([k \in 1..Len(x) |-> x[k] * y[k]])
corrcoef_keepnan(x, y) ==
    LET n == SLen(x)
        cov == n * Dot(x.v, y.v) - SeqSum(x.v) * SeqSum(y.v)
        vx == n * Dot(x.v, x.v) - SeqSum(x.v) * SeqSum(x.v)
        vy == n * Dot(y.v, y.v) - SeqSum(y.v) * SeqSum(y.v)
    IN  [isnan |-> vx = 0 \/ vy = 0, cov |-> cov, vx |-> vx, vy |-> vy]
\* lines 374-378: np.corrcoef(x, y)[1][0] = cov / sqrt(vx * vy), kept as the
\* three integers (each times n^2 and the scales, which cancel).  NaN (0/0: a
\* constant or too short series) is replaced by the integer 0, here 0/sqrt(1*1)
\* with isnan recording that the replacement took place.
corrcoef(x, y) ==
    LET n == SLen(x)
        cov == n * Dot(x.v, y.v) - SeqSum(x.v) * SeqSum(y.v)
        vx == n * Dot(x.v, x.v) - SeqSum(x.v) * SeqSum(x.v)
        vy == n * Dot(y.v, y.v) - SeqSum(y.v) * SeqSum(y.v)
    IN  IF vx = 0 \/ vy = 0
        THEN [isnan |-> TRUE, cov |-> 0, vx |-> 1, vy |-> 1]
        ELSE [isnan |-> FALSE, cov |-> cov, vx |-> vx, vy |-> vy]

----------------------------------------------------------------------------
(* process_behav_data, one action per stage                                *)

Raise(e) == /\ pc' = "raised"
            /\ err' = e

CheckTrialType_any ==
    /\ pc = "start"
    /\ pc' = "parse"
    /\ err' = err
    /\ UNCHANGED <<pic, res, vid, trial_type, res_final, mri_start, blocks,
                   onsets, i, subj_rate, n_pushes, gold_rate, duration,
                   onsets_used, durations, correlations, button_pushes,
                   main_vars>>
\* lines 321-325
CheckTrialType ==
    /\ pc = "start"
    /\ IF trial_type \notin {"vid", "cvid"}
       THEN Raise("ValueError")
       ELSE pc' = "parse" /\ err' = err
    /\ UNCHANGED <<pic, res, vid, trial_type, res_final, mri_start, blocks,
                   onsets, i, subj_rate, n_pushes, gold_rate, duration,
                   onsets_used, durations, correlations, button_pushes,
                   main_vars>>

\* lines 327-328
CallLogParser ==
    /\ pc = "parse"
    /\ LET out == log_parser(pic, res, vid)
       IN  IF out.err # "none"
           THEN Raise(out.err) /\ UNCHANGED <<res_final, mri_start>>
           ELSE /\ pc' = "blocks"
                /\ err' = err
                /\ res_final' = out.res
                /\ mri_start' = out.mri_start
    /\ UNCHANGED <<pic, res, vid, trial_type, blocks, onsets, i, subj_rate,
                   n_pushes, gold_rate, duration, onsets_used, durations,
                   correlations, button_pushes, main_vars>>

\* lines 329-337; plt.figaspect(1.0/len(blocks)) divides by zero when the
\* log has no Video line
CallFindBlocks ==
    /\ pc = "blocks"
    /\ LET out == find_blocks(vid, mri_start)
       IN  /\ blocks' = out.blocks
           /\ onsets' = out.onsets
           /\ IF Len(out.blocks) = 0
              THEN Raise("ZeroDivisionError")
              ELSE pc' = "loop" /\ err' = err
    /\ i' = 0
    /\ onsets_used' = <<>>
    /\ durations' = <<>>
    /\ correlations' = <<>>
    /\ button_pushes' = <<>>
    /\ UNCHANGED <<pic, res, vid, trial_type, res_final, mri_start, subj_rate,
                   n_pushes, gold_rate, duration, main_vars>>

\* blocks[i+1][0], or None on the last block (lines 345-350)
BlkEnd(b, k) == IF k + 2 <= Len(b) THEN b[k + 2][1] ELSE None

\* lines 340-362: find_ratings and the two reference lookups for block i
CallFindRatings ==
    /\ pc = "loop"
    /\ i < Len(blocks)
    /\ LET blk == blocks[i + 1]
           out == find_ratings(res_final, pic, blk[1], BlkEnd(blocks, i),
                               mri_start, blk[3])
       IN  IF out.err # "none"
           THEN /\ Raise(out.err)
                /\ UNCHANGED <<subj_rate, n_pushes, gold_rate, duration>>
           ELSE /\ pc' = "align"
                /\ err' = err
                /\ subj_rate' = Series(out.ratings)
                /\ n_pushes' = out.n_pushes
                /\ gold_rate' = Series(find_column_data(blk[2], EA_timing))
                /\ duration' = find_column_data(blk[2], EA_vid_lengths)
    /\ UNCHANGED <<pic, res, vid, trial_type, res_final, mri_start, blocks,
                   onsets, i, onsets_used, durations, correlations,
                   button_pushes, main_vars>>

\* lines 364-372
AlignLengths ==
    /\ pc = "align"
    /\ LET out == align(subj_rate, n_pushes, gold_rate)
       IN  IF out.err # "none"
           THEN Raise(out.err) /\ UNCHANGED <<subj_rate, gold_rate>>
           ELSE /\ pc' = "corr"
                /\ err' = err
                /\ subj_rate' = out.subj
                /\ gold_rate' = out.gold
    /\ UNCHANGED <<pic, res, vid, trial_type, res_final, mri_start, blocks,
                   onsets, i, n_pushes, duration, onsets_used, durations,
                   correlations, button_pushes, main_vars>>

Skipped_same(selector, blk_name) ==
    \/ selector = "vid" /\ blk_name[1] = "v"
    \/ selector = "cvid" /\ blk_name[1] = "c"
\* lines 401-406
Skipped(selector, blk_name) ==
    \/ selector = "vid" /\ blk_name[1] = "c"
    \/ selector = "cvid" /\ blk_name[1] = "v"

save_outputs_nopush(lists, onset, dur, corr, pushes) ==
    [onsets_used |-> Append(lists.onsets_used, onset),
     durations |-> Append(lists.durations, dur),
     correlations |-> Append(lists.correlations, corr),
     button_pushes |-> IF pushes = 0 THEN lists.button_pushes
                       ELSE Append(lists.button_pushes,
                                   [num |-> pushes, den |-> dur * 60])]
save_outputs_front(lists, onset, dur, corr, pushes) ==
    [onsets_used |-> <<onset>> \o lists.onsets_used,
     durations |-> Append(lists.durations, dur),
     correlations |-> Append(lists.correlations, corr),
     button_pushes |-> Append(lists.button_pushes,
                              [num |-> pushes, den |-> dur * 60])]
\* lines 408-418: the four appends of a retained block; the button rate
\* n_pushes / duration / 60.0 is kept as a fraction
save_outputs(lists, onset, dur, corr, pushes) ==
    [onsets_used |-> Append(lists.onsets_used, onset),
     durations |-> Append(lists.durations, dur),
     correlations |-> Append(lists.correlations, corr),
     button_pushes |-> Append(lists.button_pushes,
                              [num |-> pushes, den |-> dur * 60])]

\* lines 374-418: correlate, then skip the block or append to the four lists.
\* duration.tolist()[0] raises IndexError for a block without a column, after
\* the onset was appended.
Emit ==
    /\ pc = "corr"
    /\ LET corr == corrcoef(subj_rate, gold_rate)
       IN  IF Skipped(trial_type, blocks[i + 1][2])
           THEN /\ pc' = "loop"
                /\ err' = err
                /\ i' = i + 1
                /\ UNCHANGED <<onsets_used, durations, correlations,
                               button_pushes>>
           ELSE IF duration = <<>>
           THEN /\ Raise("IndexError")
                /\ onsets_used' = Append(onsets_used, onsets[i + 1])
                /\ UNCHANGED <<i, durations, correlations, button_pushes>>
           ELSE IF duration[1] = 0
           THEN /\ Raise("ZeroDivisionError")
                /\ onsets_used' = Append(onsets_used, onsets[i + 1])
                /\ durations' = Append(durations, duration[1])
                /\ correlations' = Append(correlations, corr)
                /\ UNCHANGED <<i, button_pushes>>
           ELSE LET out == save_outputs(
                               [onsets_used |-> onsets_used,
                                durations |-> durations,
                                correlations |-> correlations,
                                button_pushes |-> button_pushes],
                               onsets[i + 1], duration[1], corr, n_pushes)
                IN  /\ pc' = "loop"
                    /\ err' = err
                    /\ i' = i + 1
                    /\ onsets_used' = out.onsets_used
                    /\ durations' = out.durations
                    /\ correlations' = out.correlations
                    /\ button_pushes' = out.button_pushes
    /\ UNCHANGED <<pic, res, vid, trial_type, res_final, mri_start, blocks,
                   onsets, subj_rate, n_pushes, gold_rate, duration,
                   main_vars>>

\* lines 420-430
Return ==
    /\ pc = "loop"
    /\ i = Len(blocks)
    /\ pc' = "returned"
    /\ UNCHANGED <<pic, res, vid, trial_type, err, res_final, mri_start,
                   blocks, onsets, i, subj_rate, n_pushes, gold_rate, duration,
                   onsets_used, durations, correlations, button_pushes,
                   main_vars>>

process_behav_data ==
    \/ CheckTrialType
    \/ CallLogParser
    \/ CallFindBlocks
    \/ CallFindRatings
    \/ AlignLengths
    \/ Emit
    \/ Return

----------------------------------------------------------------------------
(* Input logs                                                              *)

SeqsUpTo(S, n) == UNION {[1..m -> S] : m \in 0..n}

ResCodes == {Str_102, Str_104}
BlockNames == {Str_vid_1, Str_cvid_1}
\* a rating picture shows 3 at 3 s or 7 at 6 s
RatingShown == {<<Rating("3"), 3 * TicksPerSecond>>,
                <<Rating("7"), 6 * TicksPerSecond>>}

\* the k-th Response line is logged at 1 s, 5 s, 9 s, ...; the k-th Video
\* line at 2 s, 12 s, 22 s, ...
ResTime(k) == (4 * k - 3) * TicksPerSecond
VidTime(k) == (10 * k - 8) * TicksPerSecond

ResStreams ==
    {[k \in 1..Len(s) |-> [trial |-> s[k][1], code |-> s[k][2],
                           time |-> ResTime(k)]] :
        s \in SeqsUpTo((1..MaxResTrial) \X ResCodes, MaxRes)}
VidStreams ==
    {[k \in 1..Len(s) |-> [trial |-> s[k][1], code |-> s[k][2],
                           time |-> VidTime(k)]] :
        s \in SeqsUpTo((1..MaxVidTrial) \X BlockNames, MaxVid)}

AnchorPics == {[trial |-> 1, code |-> c, time |-> TicksPerSecond \div 2] :
                  c \in {Str_MRI_start, Rating("5")}}
RatingPics == {[trial |-> t, code |-> c[1], time |-> c[2]] :
                  t \in 2..MaxPicTrial, c \in RatingShown}
PicStreams ==
    {<<>>} \cup {<<a>> \o s : a \in AnchorPics,
                              s \in SeqsUpTo(RatingPics, MaxPic)}

NoSeries == Series(<<>>)
Unbound == 0     \* f1, f2 not assigned yet (subjects are numbered from 1)

InitIdleBehav ==
    /\ res_final = <<>>
    /\ mri_start = 0
    /\ blocks = <<>>
    /\ onsets = <<>>
    /\ i = 0
    /\ subj_rate = NoSeries
    /\ n_pushes = 0
    /\ gold_rate = NoSeries
    /\ duration = <<>>
    /\ onsets_used = <<>>
    /\ durations = <<>>
    /\ correlations = <<>>
    /\ button_pushes = <<>>
    /\ err = "none"

\* process_functional_data and dm-qc-report.py are not running
InitIdleFunc ==
    /\ niftis = <<>>
    /\ EA_data = <<>>
    /\ func_pc = "idle"
InitIdleQc ==
    /\ nii_dir = <<>>
    /\ human_commands = <<>>
    /\ phantom_commands = <<>>
    /\ commands = <<>>
    /\ chained = FALSE
    /\ cmd_i = 0
    /\ jobname = <<>>
    /\ lastjob = <<>>
    /\ qsub = <<>>
    /\ job_state = <<>>
    /\ qc_pc = "idle"
InitIdleReport ==
    /\ checklist = [exists |-> FALSE, text |-> <<>>]
    /\ html = <<>>
    /\ REWRITE = FALSE
    /\ subject = "none"
    /\ qc_report = <<>>
    /\ retry = 0
    /\ attempts = 0
    /\ rep_pc = "idle"

InitIdleMain ==
    /\ InitIdleFunc
    /\ InitIdleQc
    /\ InitIdleReport
    /\ subjects = <<>>
    /\ sub_i = 0
    /\ logs = <<>>
    /\ log_i = 0
    /\ main_pc = "idle"
    /\ f1 = Unbound
    /\ timing = <<>>
    /\ csv = <<>>
    /\ glm = {}
    /\ completed = {}

\* a block whose name has no column in the reference tables
VidUnknown == {<<[trial |-> t, code |-> Str_vid_9, time |-> VidTime(1)]>> :
                  t \in 1..MaxVidTrial}

\* one call of process_behav_data: any log of the bounded sets with a valid
\* selector, or a log with an unknown block name, or an invalid selector
InitBehav ==
    /\ pic \in PicStreams
    /\ res \in ResStreams
    /\ \/ vid \in VidStreams \cup VidUnknown /\ trial_type \in {"vid", "cvid"}
       \/ vid \in VidUnknown /\ trial_type = "avid"
    /\ pc = "start"
    /\ InitIdleBehav
    /\ InitIdleMain

SpecBehav == InitBehav /\ [][process_behav_data]_vars

----------------------------------------------------------------------------
(* main: the batch loop over subjects and their logs                       *)

\* a file is the sequence of the characters written to it
NoFile == [exists |-> FALSE, text |-> <<>>]
NewFile == [exists |-> TRUE, text |-> <<>>]
NL == "\n"
CsvHeader == <<"c", "o", "r", "r", "e", "l", "a", "t", "i", "o", "n", ",",
               "n", "-", "p", "u", "s", "h", "e", "s", "-", "p", "e", "r",
               "-", "m", "i", "n", "u", "t", "e">>

(* str.format of the four numbers of a block                               *)
RECURSIVE NatStr(_)
NatStr(n) == IF n < 10 THEN <<Digits[n + 1]>>
             ELSE Append(NatStr(n \div 10), Digits[(n % 10) + 1])
Abs(n) == IF n < 0 THEN -n ELSE n
\* h hundredths with a sign, as [-]d+.dd
Hundredths(negative, h) ==
    (IF negative THEN <<"-">> ELSE <<>>)
    \o NatStr(h \div 100) \o <<".", Digits[((h \div 10) % 10) + 1],
                                Digits[(h % 10) + 1]>>
\* '{:.2f}' of the number num / den (den > 0)
Format2f(num, den) ==
    Hundredths(num < 0, RoundHalfEven(100 * Abs(num), den))
\* '{:.2f}' of a correlation c.cov / sqrt(c.vx * c.vy): the hundredths h
\* with h - 1/2 <= 100 |r|, compared on the squares
FormatCorr(c) ==
    LET h == CHOOSE m \in 0..100 :
                 /\ m = 0 \/ (2 * m - 1) * (2 * m - 1) * c.vx * c.vy
                                <= 40000 * c.cov * c.cov
                 /\ m = 100 \/ (2 * m + 1) * (2 * m + 1) * c.vx * c.vy
                                  > 40000 * c.cov * c.cov
    IN  Hundredths(c.cov < 0, h)

\* the first n digits of r / den (0 <= r < den) after the decimal point
RECURSIVE LongDiv(_, _, _)
LongDiv(r, den, n) ==
    IF n = 0 THEN <<>>
    ELSE <<(10 * r) \div den>> \o LongDiv((10 * r) % den, den, n - 1)
RECURSIVE LeadingZeros(_, _)
LeadingZeros(num, den) ==
    IF 10 * num >= den THEN 0 ELSE 1 + LeadingZeros(10 * num, den)
RECURSIVE Increment(_)
Increment(ds) ==
    IF ds = <<>> THEN <<1>>
    ELSE IF ds[Len(ds)] < 9
    THEN [ds EXCEPT ![Len(ds)] = @ + 1]
    ELSE Append(Increment(SubSeq(ds, 1, Len(ds) - 1)), 0)
RECURSIVE StripZeros(_)
StripZeros(ds) ==
    IF Len(ds) > 1 /\ ds[Len(ds)] = 0
    THEN StripZeros(SubSeq(ds, 1, Len(ds) - 1)) ELSE ds
SignificantDigits == 12
\* '{}' of a float, i.e. str(): '%.12g', with '.0' for a whole number.  For
\* 0 <= num / den < 1, the range of a button rate; below 0.0001 the float is
\* printed with an exponent.
StrFloat(num, den) ==
    IF num = 0 THEN <<"0", ".", "0">>
    ELSE
      LET z == LeadingZeros(num, den)
          ds == LongDiv(num, den, z + SignificantDigits + 1)
          kept == SubSeq(ds, z + 1, z + SignificantDigits)
          rounded == IF ds[z + SignificantDigits + 1] >= 5
                     THEN Increment(kept) ELSE kept
          carried == Len(rounded) > SignificantDigits
          sig == StripZeros(rounded)
          zeros == IF carried THEN z - 1 ELSE z
          text == [k \in 1..Len(sig) |-> Digits[sig[k] + 1]]
      IN  IF zeros < 0 THEN <<"1", ".", "0">>
          ELSE IF zeros < 4
          THEN <<"0", ".">> \o Repeat("0", zeros) \o text
          ELSE <<text[1]>>
               \o (IF Len(text) > 1 THEN <<".">> \o Tail(text) ELSE <<>>)
               \o <<"e", "-">>
               \o (IF zeros + 1 < 10 THEN <<"0">> ELSE <<>>)
               \o NatStr(zeros + 1)

Subject == subjects[sub_i + 1]

\* lines 655-663: phantoms and subjects with a completion marker are skipped
NextSubject ==
    /\ main_pc = "subject"
    /\ sub_i < Len(subjects)
    /\ IF Subject.kind = "phantom" \/ (sub_i + 1) \in completed
       THEN sub_i' = sub_i + 1 /\ main_pc' = main_pc
       ELSE sub_i' = sub_i /\ main_pc' = "func"
    /\ UNCHANGED <<pbd_vars, subjects, logs, log_i, f1, timing, csv, glm,
                   completed>>
    /\ UNCHANGED <<func_vars, qc_vars, report_vars>>

\* lines 665-669 with 432-575: process_functional_data either raises
\* ValueError (caught: next subject) or runs to its end, where it touches
\* <sub>_complete.log
CallProcessFunctional ==
    /\ main_pc = "func"
    /\ IF Subject.kind = "nofunc"
       THEN /\ sub_i' = sub_i + 1
            /\ main_pc' = "subject"
            /\ completed' = completed
       ELSE /\ sub_i' = sub_i
            /\ main_pc' = "list"
            /\ completed' = completed \cup {sub_i + 1}
    /\ UNCHANGED <<pbd_vars, subjects, logs, log_i, f1, timing, csv, glm>>
    /\ UNCHANGED <<func_vars, qc_vars, report_vars>>

sorted_reverse(files) ==
    [k \in 1..Len(files) |->
        files[CHOOSE j \in 1..Len(files) :
                 Cardinality({m \in 1..Len(files) :
                                 files[m].name > files[j].name}) = k - 1]]
\* line 676: logs.sort(), on files with distinct names
sorted(files) ==
    [k \in 1..Len(files) |->
        files[CHOOSE j \in 1..Len(files) :
                 Cardinality({m \in 1..Len(files) :
                                 files[m].name < files[j].name}) = k - 1]]

\* lines 671-690: the log names, sorted; with at least one log the two output
\* files are opened (truncated) and the csv header is written
ListLogs ==
    /\ main_pc = "list"
    /\ logs' = sorted(Subject.logs)
    /\ log_i' = 0
    /\ IF Len(Subject.logs) > 0
       THEN /\ f1' = sub_i + 1
            /\ timing' = [timing EXCEPT ![sub_i + 1] =
                              NewFile]
            /\ csv' = [csv EXCEPT ![sub_i + 1] =
                              [NewFile EXCEPT !.text = CsvHeader \o <<NL>>]]
       ELSE UNCHANGED <<f1, timing, csv>>
    /\ main_pc' = "log"
    /\ UNCHANGED <<pbd_vars, subjects, sub_i, glm, completed>>
    /\ UNCHANGED <<func_vars, qc_vars, report_vars>>

\* lines 692-696: process_behav_data(log, ..., 'vid') is entered
StartLog ==
    /\ main_pc = "log"
    /\ log_i < Len(logs)
    /\ pic' = logs[log_i + 1].pic
    /\ res' = logs[log_i + 1].res
    /\ vid' = logs[log_i + 1].vid
    /\ trial_type' = "vid"
    /\ pc' = "start"
    /\ err' = "none"
    /\ main_pc' = "call"
    /\ UNCHANGED <<res_final, mri_start, blocks, onsets, i, subj_rate,
                   n_pushes, gold_rate, duration, onsets_used, durations,
                   correlations, button_pushes, subjects, sub_i, logs, log_i,
                   f1, timing, csv, glm, completed>>
    /\ UNCHANGED <<func_vars, qc_vars, report_vars>>

RECURSIVE Concat(_)
Concat(ss) == IF ss = <<>> THEN <<>> ELSE Head(ss) \o Concat(Tail(ss))

Token_2f(k) ==
    Format2f(onsets_used[k], TicksPerSecond) \o <<"*">>
    \o FormatCorr(correlations[k]) \o <<",">>
    \o Format2f(button_pushes[k].num, button_pushes[k].den) \o <<":">>
    \o Format2f(durations[k], 1) \o <<" ">>
\* lines 700-703: '{o:.2f}*{r:.2f},{p}:{d:.2f} '
Token(k) ==
    Format2f(onsets_used[k], TicksPerSecond) \o <<"*">>
    \o FormatCorr(correlations[k]) \o <<",">>
    \o StrFloat(button_pushes[k].num, button_pushes[k].den) \o <<":">>
    \o Format2f(durations[k], 1) \o <<" ">>
\* line 705: '{r:.2f},{p}\n'
Row(k) ==
    FormatCorr(correlations[k]) \o <<",">>
    \o StrFloat(button_pushes[k].num, button_pushes[k].den) \o <<NL>>
Tokens == Concat([k \in 1..Len(onsets_used) |-> Token(k)])
Rows_reverse ==
    Concat([k \in 1..Len(onsets_used) |-> Row(Len(onsets_used) + 1 - k)])
Rows == Concat([k \in 1..Len(onsets_used) |-> Row(k)])

\* lines 693-707: one token per returned block, then the newline, on f1; one
\* row per returned block on f2
WriteLog ==
    /\ main_pc = "call"
    /\ pc = "returned"
    /\ timing' = [timing EXCEPT ![f1].text = @ \o Tokens \o <<NL>>]
    /\ csv' = [csv EXCEPT ![f1].text = @ \o Rows]
    /\ log_i' = log_i + 1
    /\ main_pc' = "log"
    /\ pc' = "idle"
    /\ UNCHANGED <<pic, res, vid, trial_type, err, res_final, mri_start,
                   blocks, onsets, i, subj_rate, n_pushes, gold_rate, duration,
                   onsets_used, durations, correlations, button_pushes,
                   subjects, sub_i, logs, f1, glm, completed>>
    /\ UNCHANGED <<func_vars, qc_vars, report_vars>>

\* line 693 is not inside a try: an exception of process_behav_data leaves
\* the loops and main
Uncaught ==
    /\ main_pc = "call"
    /\ pc = "raised"
    /\ main_pc' = "crashed"
    /\ UNCHANGED <<pbd_vars, subjects, sub_i, logs, log_i, f1, timing, csv,
                   glm, completed>>
    /\ UNCHANGED <<func_vars, qc_vars, report_vars>>

\* lines 709-716: f1.close() and f2.close() (NameError when no subject so far
\* had a log), then the GLM script is generated and run
CloseAndAnalyse ==
    /\ main_pc = "log"
    /\ log_i = Len(logs)
    /\ IF f1 = Unbound
       THEN /\ main_pc' = "crashed"
            /\ err' = "NameError"
            /\ UNCHANGED <<sub_i, glm>>
       ELSE /\ main_pc' = "subject"
            /\ err' = err
            /\ sub_i' = sub_i + 1
            /\ glm' = glm \cup {sub_i + 1}
    /\ UNCHANGED <<pic, res, vid, trial_type, pc, res_final, mri_start,
                   blocks, onsets, i, subj_rate, n_pushes, gold_rate, duration,
                   onsets_used, durations, correlations, button_pushes,
                   subjects, logs, log_i, f1, timing, csv, completed>>
    /\ UNCHANGED <<func_vars, qc_vars, report_vars>>

\* the subject loop is exhausted
Finish ==
    /\ main_pc = "subject"
    /\ sub_i = Len(subjects)
    /\ main_pc' = "done"
    /\ UNCHANGED <<pbd_vars, subjects, sub_i, logs, log_i, f1, timing, csv,
                   glm, completed>>
    /\ UNCHANGED <<func_vars, qc_vars, report_vars>>

main ==
    \/ NextSubject
    \/ CallProcessFunctional
    \/ ListLogs
    \/ StartLog
    \/ WriteLog
    \/ Uncaught
    \/ CloseAndAnalyse
    \/ Finish

(* The study directory: a few logs and the kinds of subject.               *)
Pic(t, c) == [trial |-> t, code |-> c[1], time |-> c[2]]
Anchor == [trial |-> 1, code |-> Str_MRI_start, time |-> TicksPerSecond \div 2]
Shows3 == <<Rating("3"), 3 * TicksPerSecond>>
Shows7 == <<Rating("7"), 6 * TicksPerSecond>>
Res(t, c, k) == [trial |-> t, code |-> c, time |-> ResTime(k)]
Vid(t, c, k) == [trial |-> t, code |-> c, time |-> VidTime(k)]

\* no button push: one block, neutral trace
LogQuiet == [pic |-> <<Anchor, Pic(2, Shows3)>>,
             res |-> <<Res(1, Str_104, 1)>>,
             vid |-> <<Vid(1, Str_vid_1, 1)>>]
\* two pushes in a video block, followed by a circles block and a video
\* block without a response
LogEngaged == [pic |-> <<Anchor, Pic(2, Shows3), Pic(3, Shows7)>>,
               res |-> <<Res(1, Str_102, 1), Res(2, Str_102, 2)>>,
               vid |-> <<Vid(1, Str_vid_1, 1), Vid(3, Str_cvid_1, 2),
                         Vid(4, Str_vid_1, 3)>>]
\* first Picture line is not MRI_start
LogNoAnchor == [pic |-> <<Pic(1, Shows3)>>,
                res |-> <<Res(1, Str_104, 1)>>,
                vid |-> <<Vid(1, Str_vid_1, 1)>>]
\* a push, but a single held sample
LogShort == [pic |-> <<Anchor, Pic(2, Shows3)>>,
             res |-> <<Res(1, Str_102, 1)>>,
             vid |-> <<Vid(1, Str_vid_1, 1)>>]
\* a circles block only: nothing is retained under the selector 'vid'
LogCircles == [pic |-> <<Anchor, Pic(2, Shows3)>>,
               res |-> <<Res(1, Str_104, 1)>>,
               vid |-> <<Vid(1, Str_cvid_1, 1)>>]
LogLibrary == {LogQuiet, LogEngaged, LogNoAnchor, LogShort, LogCircles}

\* os.listdir returns the log files in any order; the names of a directory
\* are distinct, here the numbers 1..n in the order of the names
Orders(n) == {f \in [1..n -> 1..n] : \A a, b \in 1..n : a # b => f[a] # f[b]}
Listings ==
    UNION {{[k \in 1..Len(l) |-> [name |-> nm[k], pic |-> l[k].pic,
                                  res |-> l[k].res, vid |-> l[k].vid]] :
               nm \in Orders(Len(l))} :
           l \in SeqsUpTo(LogLibrary, MaxLogs)}

SubjectKinds ==
    {[kind |-> k, logs |-> <<>>] : k \in {"phantom", "done", "nofunc"}}
    \cup {[kind |-> "ok", logs |-> l] : l \in Listings}

InitMain ==
    /\ subjects \in SeqsUpTo(SubjectKinds, MaxSubjects)
    /\ sub_i = 0
    /\ logs = <<>>
    /\ log_i = 0
    /\ main_pc = "subject"
    /\ f1 = Unbound
    /\ timing = [s \in 1..Len(subjects) |-> NoFile]
    /\ csv = [s \in 1..Len(subjects) |-> NoFile]
    /\ glm = {}
    /\ completed = {s \in 1..Len(subjects) : subjects[s].kind = "done"}
    /\ pic = <<>>
    /\ res = <<>>
    /\ vid = <<>>
    /\ trial_type = "vid"
    /\ pc = "idle"
    /\ InitIdleBehav
    /\ InitIdleFunc
    /\ InitIdleQc
    /\ InitIdleReport

NextMain == main \/ process_behav_data

SpecMain == InitMain /\ [][NextMain]_vars

Stopped == main_pc \in {"done", "crashed"}

\* C1: when the processing of a log raises, the failure is caught and the
\* batch goes on: main does not stop before every subject of the list has
\* been reached.
C1_BatchContinues == (Stopped /\ pc = "raised") => sub_i = Len(subjects)

----------------------------------------------------------------------------
(* log_parser alone, on longer Response streams                            *)

MaxParseRes == 6     \* Response lines per log
MaxParseTrial == 3   \* largest trial index

ParseResStreams ==
    {[k \in 1..Len(s) |-> [trial |-> s[k], code |-> Str_104,
                           time |-> ResTime(k)]] :
        s \in SeqsUpTo(1..MaxParseTrial, MaxParseRes)}

InitParser ==
    /\ pic \in {<<>>} \cup {<<a>> : a \in AnchorPics}
    /\ res \in ParseResStreams
    /\ vid \in {<<[trial |-> 1, code |-> Str_vid_1, time |-> VidTime(1)]>>}
    /\ trial_type = "vid"
    /\ pc = "start"
    /\ InitIdleBehav
    /\ InitIdleMain

NextParser == CheckTrialType \/ CallLogParser

SpecParser == InitParser /\ [][NextParser]_vars

----------------------------------------------------------------------------
(* Properties of log_parser                                                *)

FirstPicIsAnchor == pic # <<>> /\ pic[1].code = Str_MRI_start
AnchorMissingRaised == pc' = "raised" /\ err' = "ValueError"
ParserReturned ==
    /\ pc' = "blocks"
    /\ res_final' # <<>>
    /\ mri_start' = res_final'[1].time
    /\ mri_start' = res[1].time

RunHeads(r) ==
    LET idx == SelectSeq([k \in 1..Len(r) |-> k],
                         LAMBDA k : k = 1 \/ r[k].trial # r[k - 1].trial)
    IN  [j \in 1..Len(idx) |-> r[idx[j]]]

\* the rows of r whose trial index did not occur in an earlier row
FirstOccurrences(r) ==
    LET idx == SelectSeq([k \in 1..Len(r) |-> k],
                         LAMBDA k : \A j \in 1..(k - 1) :
                                        r[j].trial # r[k].trial)
    IN  [j \in 1..Len(idx) |-> r[idx[j]]]

\* C4: the deduplicated Response stream holds every trial index at most once,
\* the row kept for an index being its first occurrence, in input order.
C4_UniqueTrials ==
    pc = "blocks" =>
        /\ \A a, b \in 1..Len(res_final) :
               a # b => res_final[a].trial # res_final[b].trial
        /\ res_final = FirstOccurrences(res)

----------------------------------------------------------------------------
(* Properties of process_behav_data                                        *)

Retained == {k \in 1..Len(blocks) : ~Skipped(trial_type, blocks[k][2])}

\* C3: whenever process_behav_data returns, the four result lists have the
\* same length, the number of retained blocks.
C3_EqualLengths ==
    pc = "returned" =>
        /\ Len(onsets_used) = Cardinality(Retained)
        /\ Len(durations) = Cardinality(Retained)
        /\ Len(correlations) = Cardinality(Retained)
        /\ Len(button_pushes) = Cardinality(Retained)

C3_Witness ==
    /\ pc = "returned"
    /\ Len(blocks) = 2
    /\ Len(button_pushes) = 1
    /\ button_pushes[1].num = 0

AfterFindBlocks == pc \in {"loop", "align", "corr", "returned"}

\* C6: find_blocks returns one block per Video line, in log order, each being
\* (trial, code, (time - mri_start) / 10000.0), and the onsets are the block
\* start times in the same order.  (Start times are compared in ticks.)
C6_OneBlockPerVideo ==
    AfterFindBlocks =>
        /\ Len(blocks) = Len(vid)
        /\ Len(onsets) = Len(vid)
        /\ \A k \in 1..Len(vid) :
               /\ blocks[k] = <<vid[k].trial, vid[k].code,
                                vid[k].time - mri_start>>
               /\ onsets[k] = blocks[k][3]

C6_Witness ==
    /\ pc = "loop"
    /\ Len(blocks) = 2
    /\ blocks[1][2] # blocks[2][2]
    /\ blocks[2][1] < blocks[1][1]
    /\ onsets = <<VidTime(1) - ResTime(1), VidTime(2) - ResTime(1)>>

\* the Response rows block number b (1-based) selects
SelectedBy(b) == Selected(res_final, blocks[b][1], BlkEnd(blocks, b - 1))
\* the trial indices the claim assigns to block b
ClaimedRange(b) ==
    IF b < Len(blocks) THEN blocks[b][1]..(blocks[b + 1][1] - 1)
    ELSE blocks[b][1]..(res_final[Len(res_final)].trial)
SelectingBlocks(k) ==
    {b \in 1..Len(blocks) :
        \E j \in 1..Len(SelectedBy(b)) : SelectedBy(b)[j] = res_final[k]}
Partitioned ==
    /\ \A b \in 1..Len(blocks) :
           SelectedBy(b) =
               SelectSeq(res_final, LAMBDA s : s.trial \in ClaimedRange(b))
    /\ \A k \in 1..Len(res_final) :
           res_final[k].trial >= blocks[1][1] =>
               Cardinality(SelectingBlocks(k)) = 1
NonDecreasing(s) == \A a \in 1..(Len(s) - 1) : s[a].trial <= s[a + 1].trial

\* C7 (as stated): for any log, block i selects the deduplicated responses of
\* [start_i, start_{i+1}), the last block those of [start_last, trial of the
\* last response], and every response at or after the first block's start is
\* selected by exactly one block.
C7_PartitionAnyLog == AfterFindBlocks => Partitioned

\* C7 (amended): the same, for a log whose Video lines and whose Response
\* lines each carry non-decreasing trial indices.
C7_Partition ==
    (AfterFindBlocks /\ NonDecreasing(vid) /\ NonDecreasing(res))
        => Partitioned

C7_Witness ==
    /\ pc = "returned"
    /\ NonDecreasing(vid) /\ NonDecreasing(res)
    /\ Len(blocks) = 2
    /\ blocks[1][1] < blocks[2][1]
    /\ Len(SelectedBy(1)) = 1
    /\ Len(SelectedBy(2)) = 1
    /\ Len(res_final) = 2

InBlock == pc \in {"loop", "align", "corr"} /\ i < Len(blocks)
NoResponses == InBlock /\ SelectedBy(i + 1) = <<>>
Neutrals(n) == Series(Repeat(Neutral, n))
ReferenceLength == Len(find_column_data(blocks[i + 1][2], EA_timing))

\* C8: for a block that selects no Response row, find_ratings returns the
\* trace [5] and 0 button pushes without raising; the subject trace then used
\* is uniformly 5 with the length of the reference series, and the button
\* rate appended for the block is 0.
C8_NoResponseFallback ==
    [][NoResponses =>
          /\ pc = "loop" => /\ pc' = "align"
                            /\ subj_rate' = Series(<<Neutral>>)
                            /\ n_pushes' = 0
          /\ pc = "align" => /\ pc' = "corr"
                             /\ subj_rate' = Neutrals(ReferenceLength)
          /\ (pc = "corr" /\ Len(button_pushes') > Len(button_pushes)) =>
                 button_pushes'[Len(button_pushes')].num = 0]_vars

C8_Witness ==
    /\ pc = "loop"
    /\ i = 1
    /\ Len(button_pushes) = 1
    /\ button_pushes[1].num = 0
    /\ SelectedBy(1) = <<>>
    /\ subj_rate = Neutrals(4)
    /\ res_final # <<>>

\* C9: for a block with 0 button pushes, whatever trace find_ratings built,
\* the subject trace is replaced by a constant 5 of the reference series'
\* length and the reference series is unchanged.
C9_ZeroPushOverride ==
    [][(pc = "align" /\ n_pushes = 0) =>
          /\ pc' = "corr"
          /\ subj_rate' = Neutrals(SLen(gold_rate))
          /\ gold_rate' = gold_rate
          /\ gold_rate = Series(find_column_data(blocks[i + 1][2],
                                                 EA_timing))]_vars

C9_Witness ==
    /\ pc = "corr"
    /\ n_pushes = 0
    /\ SelectedBy(i + 1) # <<>>
    /\ subj_rate = Neutrals(4)
    /\ Len(find_ratings(res_final, pic, blocks[i + 1][1], BlkEnd(blocks, i),
                        mri_start, blocks[i + 1][3]).ratings) \in {1, 2}

EndsKept(old, new) ==
    SLen(old) > 0 =>
        /\ new.v[1] * old.scale = old.v[1] * new.scale
        /\ new.v[SLen(new)] * old.scale = old.v[SLen(old)] * new.scale

\* C10: for a block with at least one button push, after the alignment step
\* the two series have the same length, the larger of the two original
\* lengths; the longer one is unchanged and the shorter one keeps its first
\* and last values.  Stated for every pair of lengths.
C10_AlignedLengths ==
    [][(pc = "align" /\ n_pushes # 0) =>
          /\ pc' = "corr"
          /\ SLen(subj_rate') = MaxOf(SLen(subj_rate), SLen(gold_rate))
          /\ SLen(gold_rate') = MaxOf(SLen(subj_rate), SLen(gold_rate))
          /\ SLen(subj_rate) >= SLen(gold_rate) => subj_rate' = subj_rate
          /\ SLen(gold_rate) >= SLen(subj_rate) => gold_rate' = gold_rate
          /\ EndsKept(subj_rate, subj_rate')
          /\ EndsKept(gold_rate, gold_rate')]_vars

----------------------------------------------------------------------------
(* The alignment step, match_lengths and the correlation of one block      *)
(* alone, on arbitrary pairs of series                                     *)

MaxSeriesLen == 3    \* samples per series

\* a trace holds ratings; without a button push every sample of it is the
\* neutral rating (lines 144-147, 226-234)
TraceValues == {3, Neutral, 7}
ReferenceValues == {5, 6, 7}
Traces == {Series(v) : v \in SeqsUpTo(TraceValues, MaxSeriesLen)}
References == {Series(v) : v \in SeqsUpTo(ReferenceValues, MaxSeriesLen)}

InitResample ==
    /\ pc \in {"align", "resample"}
    /\ subj_rate \in Traces
    /\ gold_rate \in References
    /\ n_pushes \in 0..1
    /\ n_pushes = 0 => subj_rate = Series(Repeat(Neutral, SLen(subj_rate)))
    /\ pic = <<>>
    /\ res = <<>>
    /\ vid = <<>>
    /\ trial_type = "vid"
    /\ err = "none"
    /\ res_final = <<>>
    /\ mri_start = 0
    /\ \E name \in BlockNames :
          /\ blocks = <<<<1, name, 0>>>>
          /\ duration = find_column_data(name, EA_vid_lengths)
    /\ onsets = <<0>>
    /\ i = 0
    /\ onsets_used = <<>>
    /\ durations = <<>>
    /\ correlations = <<>>
    /\ button_pushes = <<>>
    /\ InitIdleMain

\* lines 283-291: gold_rate = match_lengths(subj_rate, gold_rate)
CallMatchLengths ==
    /\ pc = "resample"
    /\ LET out == match_lengths(subj_rate, gold_rate)
       IN  IF out.err # "none"
           THEN Raise(out.err) /\ gold_rate' = gold_rate
           ELSE /\ pc' = "resampled"
                /\ err' = err
                /\ gold_rate' = out.b
    /\ UNCHANGED <<pic, res, vid, trial_type, res_final, mri_start, blocks,
                   onsets, i, subj_rate, n_pushes, duration, onsets_used,
                   durations, correlations, button_pushes, main_vars>>

NextResample == AlignLengths \/ CallMatchLengths \/ Emit

SpecResample == InitResample /\ [][NextResample]_vars

\* the two series hold the same numbers, sample by sample
SameSeries(x, y) ==
    /\ SLen(x) = SLen(y)
    /\ \A k \in 1..SLen(x) : x.v[k] * y.scale = y.v[k] * x.scale

\* C11: when the trace and the reference already have the same length, the
\* alignment step changes neither of them, and match_lengths(a, b) with
\* len(a) = len(b) >= 2 returns b, sample by sample.
C11_IdentityOnEqualLengths ==
    [][SLen(subj_rate) = SLen(gold_rate) =>
          /\ pc = "align" =>
                /\ pc' = "corr"
                /\ SameSeries(subj_rate', subj_rate)
                /\ SameSeries(gold_rate', gold_rate)
          /\ (pc = "resample" /\ SLen(gold_rate) >= 2) =>
                /\ pc' = "resampled"
                /\ SameSeries(gold_rate', gold_rate)]_vars

C11_Witness ==
    /\ pc = "resampled"
    /\ SLen(subj_rate) = 3
    /\ gold_rate = [scale |-> 2, v |-> <<10, 12, 14>>]

IsConstant(s) == \A j, k \in 1..SLen(s) : s.v[j] = s.v[k]
\* the value cov / sqrt(vx * vy) of a correlation entry
IsNumber(c) == c.vx > 0 /\ c.vy > 0
InUnitInterval(c) == c.cov * c.cov <= c.vx * c.vy
IsZero(c) == c.cov = 0
IsOne(c) == c.cov > 0 /\ c.cov * c.cov = c.vx * c.vy
RetainsBlock ==
    pc = "corr" /\ pc' = "loop" /\ ~Skipped(trial_type, blocks[i + 1][2])

\* C12: the correlation appended for a retained block is a number in
\* [-1, 1], never NaN; it is 0 whenever one of the two aligned series is
\* constant, in particular for a block without a button push; it is 1 when
\* the two aligned series are identical and not constant.
C12_CorrelationRange ==
    [][RetainsBlock =>
          LET c == correlations'[Len(correlations')]
          IN  /\ Len(correlations') = Len(correlations) + 1
              /\ IsNumber(c)
              /\ InUnitInterval(c)
              /\ (IsConstant(subj_rate) \/ IsConstant(gold_rate)) => IsZero(c)
              /\ n_pushes = 0 => IsZero(c)
              /\ (SameSeries(subj_rate, gold_rate) /\ ~IsConstant(subj_rate))
                    => IsOne(c)]_vars

C12_Witness ==
    /\ pc = "loop"
    /\ Len(correlations) = 1
    /\ IsOne(correlations[1])
    /\ SameSeries(subj_rate, gold_rate)
    /\ ~IsConstant(subj_rate)

\* every sample is a whole number / a number between 0 and 10
AllIntegers(s) == \A k \in 1..SLen(s) : s.v[k] % s.scale = 0
AllInRange(s) ==
    \A k \in 1..SLen(s) : 0 <= s.v[k] /\ s.v[k] <= 10 * s.scale

\* C13 (as stated): every value of the trace returned by find_ratings, and
\* every value of the subject trace that is then correlated against the
\* reference, is an integer between 0 and 10.
C13_IntegerRatings ==
    pc \in {"align", "corr"} => AllIntegers(subj_rate) /\ AllInRange(subj_rate)

\* C13 (amended): every value of the trace returned by find_ratings is an
\* integer between 0 and 10; every value of the correlated subject trace lies
\* between 0 and 10, and is an integer unless the trace was resampled to the
\* greater length of the reference.
C13_RatingsInRange ==
    [][pc = "align" =>
          /\ AllIntegers(subj_rate)
          /\ AllInRange(subj_rate)
          /\ pc' = "corr" =>
                /\ AllInRange(subj_rate')
                /\ SLen(subj_rate') = SLen(subj_rate)
                      => AllIntegers(subj_rate')]_vars

C13_Witness ==
    /\ pc = "corr"
    /\ n_pushes # 0
    /\ SLen(subj_rate) = 4
    /\ ~AllIntegers(subj_rate)
    /\ \E k \in 1..4 : subj_rate.v[k] = 3 * subj_rate.scale

\* block i + 1 has been appended to the result lists
Emitted ==
    /\ onsets_used' = Append(onsets_used, onsets[i + 1])
    /\ Len(durations') = Len(durations) + 1
    /\ Len(correlations') = Len(correlations) + 1
    /\ Len(button_pushes') = Len(button_pushes) + 1
NotEmitted ==
    UNCHANGED <<onsets_used, durations, correlations, button_pushes>>

\* C14: a block that has been processed is appended to the results, under
\* selector "vid", exactly when its name does not begin with "c" and, under
\* selector "cvid", exactly when its name does not begin with "v".
C14_TrialTypeFilter ==
    [][(pc = "corr" /\ pc' = "loop") =>
          LET blk_name == blocks[i + 1][2]
          IN  /\ Emitted \/ NotEmitted
              /\ trial_type = "vid" => (Emitted <=> blk_name[1] # "c")
              /\ trial_type = "cvid" => (Emitted <=> blk_name[1] # "v")]_vars

C14_Witness ==
    /\ pc = "returned"
    /\ trial_type = "cvid"
    /\ Len(blocks) = 2
    /\ blocks[1][2] = Str_vid_1
    /\ blocks[2][2] = Str_cvid_1
    /\ onsets_used = <<onsets[2]>>

\* C15: with a selector other than "vid" and "cvid" process_behav_data raises
\* at once: the log is never parsed, no reference column is read, nothing is
\* appended to a result list and the call does not return.
C15_InvalidSelector ==
    trial_type \notin {"vid", "cvid"} =>
        /\ pc \in {"start", "raised"}
        /\ pc = "raised" => err = "ValueError"
        /\ res_final = <<>>
        /\ blocks = <<>>
        /\ gold_rate = NoSeries
        /\ duration = <<>>
        /\ onsets_used = <<>>
        /\ durations = <<>>
        /\ correlations = <<>>
        /\ button_pushes = <<>>

C15_Witness ==
    /\ trial_type = "avid"
    /\ pc = "raised"
    /\ FirstPicIsAnchor
    /\ res # <<>>

\* the deduplicated responses inside block b's trial-index range that carry
\* a button code
PressesIn(b) ==
    {k \in 1..Len(res_final) :
        /\ res_final[k].trial \in ClaimedRange(b)
        /\ \/ Contains(res_final[k].code, Str_102)
           \/ Contains(res_final[k].code, Str_103)}
ReferenceDuration(b) == find_column_data(blocks[b][2], EA_vid_lengths)[1]
\* the fraction p is the number n / d / 60
IsRate(p, n, d) == p.den # 0 /\ p.num * d * 60 = n * p.den

----------------------------------------------------------------------------
(* The results of a whole call                                             *)

\* the blocks the selector keeps, in log order
RECURSIVE KeptFrom(_)
KeptFrom(b) ==
    IF b > Len(blocks) THEN <<>>
    ELSE IF \/ trial_type = "vid" /\ blocks[b][2][1] = "c"
            \/ trial_type = "cvid" /\ blocks[b][2][1] = "v"
         THEN KeptFrom(b + 1)
         ELSE <<b>> \o KeptFrom(b + 1)
\* the correlation of block b, computed from the log alone
CorrelationOf(b) ==
    LET r == find_ratings(res_final, pic, blocks[b][1], BlkEnd(blocks, b - 1),
                          mri_start, blocks[b][3])
        a == align(Series(r.ratings), r.n_pushes,
                   Series(find_column_data(blocks[b][2], EA_timing)))
    IN  corrcoef(a.subj, a.gold)

\* C17: whenever process_behav_data returns, the k-th entries of the four
\* lists are the onset (start time relative to the anchor), the reference
\* duration, the correlation and the button rate of the k-th retained block
\* of the log.
C17_PositionalAlignment ==
    pc = "returned" =>
        LET kept == KeptFrom(1)
        IN  /\ Len(onsets_used) = Len(kept)
            /\ Len(durations) = Len(kept)
            /\ Len(correlations) = Len(kept)
            /\ Len(button_pushes) = Len(kept)
            /\ \A k \in 1..Len(kept) :
                  /\ onsets_used[k] = vid[kept[k]].time - mri_start
                  /\ durations[k] = ReferenceDuration(kept[k])
                  /\ correlations[k] = CorrelationOf(kept[k])
                  /\ IsRate(button_pushes[k],
                            Cardinality(PressesIn(kept[k])),
                            ReferenceDuration(kept[k]))

\* two retained blocks around an excluded one would need three Video lines;
\* here: an excluded block first, then a retained one, and two retained
\* blocks that differ in every field
C17_Witness ==
    /\ pc = "returned"
    /\ Len(blocks) = 2
    /\ \/ /\ KeptFrom(1) = <<2>>
          /\ button_pushes[1].num = 1
       \/ /\ KeptFrom(1) = <<1, 2>>
          /\ correlations[1] # correlations[2]
          /\ button_pushes[1] # button_pushes[2]

----------------------------------------------------------------------------
(* The two files main writes for a subject                                 *)

\* the pieces of a text that end with the separator, without it, and what is
\* left after the last separator
RECURSIVE Split(_, _, _, _)
Split(text, sep, k, cur) ==
    IF k > Len(text) THEN [pieces |-> <<>>, rest |-> cur]
    ELSE IF text[k] = sep
    THEN LET more == Split(text, sep, k + 1, <<>>)
         IN  [pieces |-> <<cur>> \o more.pieces, rest |-> more.rest]
    ELSE Split(text, sep, k + 1, Append(cur, text[k]))
LinesOf(text) == Split(text, NL, 1, <<>>)
TokensOfLine(line) == Split(line, " ", 1, <<>>)
TokensOf(text) ==
    LET lines == LinesOf(text).pieces
    IN  Concat([k \in 1..Len(lines) |-> TokensOfLine(lines[k]).pieces])

AllDigits(t) == \A k \in 1..Len(t) : IsDigit(t[k])
\* [-]d+.dd
TwoDecimals(t) ==
    LET u == IF t # <<>> /\ t[1] = "-" THEN Tail(t) ELSE t
    IN  /\ Len(u) >= 4
        /\ u[Len(u) - 2] = "."
        /\ AllDigits(SubSeq(u, 1, Len(u) - 3))
        /\ AllDigits(SubSeq(u, Len(u) - 1, Len(u)))
\* str() of a float below 1: 0.d+ with at most 12 significant digits and no
\* padding zero at the end, or such digits with an exponent
DefaultFloat(t) ==
    \/ /\ Len(t) >= 3
       /\ SubSeq(t, 1, 2) = <<"0", ".">>
       /\ AllDigits(SubSeq(t, 3, Len(t)))
       /\ Len(t) > 3 => t[Len(t)] # "0"
       /\ Len(t) <= 2 + 3 + SignificantDigits
    \/ /\ Len(t) >= 5
       /\ SubSeq(t, Len(t) - 3, Len(t) - 2) = <<"e", "-">>
       /\ AllDigits(SubSeq(t, Len(t) - 1, Len(t)))
       /\ IsDigit(t[1])
       /\ Len(t) > 5 => t[2] = "." /\ AllDigits(SubSeq(t, 3, Len(t) - 4))
Position(t, c) == IF \E k \in 1..Len(t) : t[k] = c
                  THEN CHOOSE k \in 1..Len(t) :
                           t[k] = c /\ \A j \in 1..(k - 1) : t[j] # c
                  ELSE 0
\* the four fields of onset*correlation,rate:duration
Fields(t) ==
    LET a == Position(t, "*")
        b == Position(t, ",")
        c == Position(t, ":")
    IN  IF 0 < a /\ a < b /\ b < c
        THEN [ok |-> TRUE, o |-> SubSeq(t, 1, a - 1),
              r |-> SubSeq(t, a + 1, b - 1), p |-> SubSeq(t, b + 1, c - 1),
              d |-> SubSeq(t, c + 1, Len(t))]
        ELSE [ok |-> FALSE, o |-> <<>>, r |-> <<>>, p |-> <<>>, d |-> <<>>]
WrittenTokens ==
    UNION {LET tokens == TokensOf(timing[s].text)
           IN  {tokens[k] : k \in 1..Len(tokens)} : s \in 1..Len(timing)}

NthByName(files, j) ==
    CHOOSE f \in {files[k] : k \in 1..Len(files)} :
        Cardinality({k \in 1..Len(files) : files[k].name < f.name}) = j - 1
\* the token of block b of the log being processed
TokenOf(b) ==
    Format2f(vid[b].time - mri_start, TicksPerSecond) \o <<"*">>
    \o FormatCorr(CorrelationOf(b)) \o <<",">>
    \o StrFloat(Cardinality(PressesIn(b)), ReferenceDuration(b) * 60)
    \o <<":">> \o Format2f(ReferenceDuration(b), 1)
LogReturns == main_pc = "call" /\ pc = "returned"
SubjectCompletes == main_pc = "log" /\ main_pc' = "subject"
TimingText == timing[sub_i + 1].text

\* C19: for a subject whose n >= 1 logs are all processed, the stimulus-
\* timing file holds exactly n lines, each ended by a newline, in the order
\* of the log names; the j-th line holds the tokens of the retained blocks
\* of the j-th log in block order, each followed by a space (none for a log
\* without a retained block).
C19_OneLinePerLog ==
    [][/\ LogReturns =>
            LET before == LinesOf(TimingText)
                after == LinesOf(TimingText')
                file == NthByName(Subject.logs, log_i + 1)
                kept == KeptFrom(1)
            IN  /\ <<pic, res, vid>> = <<file.pic, file.res, file.vid>>
                /\ Len(before.pieces) = log_i
                /\ after.rest = <<>>
                /\ Len(after.pieces) = log_i + 1
                /\ SubSeq(after.pieces, 1, log_i) = before.pieces
                /\ TokensOfLine(after.pieces[log_i + 1]) =
                      [pieces |-> [k \in 1..Len(kept) |-> TokenOf(kept[k])],
                       rest |-> <<>>]
       /\ SubjectCompletes =>
            /\ LinesOf(TimingText).rest = <<>>
            /\ Len(LinesOf(TimingText).pieces) = Len(Subject.logs)
            /\ timing' = timing]_vars

C19_Witness ==
    /\ main_pc = "done"
    /\ Len(subjects) = 1
    /\ Len(subjects[1].logs) = 2
    /\ subjects[1].logs[1].name > subjects[1].logs[2].name
    /\ subjects[1].logs[1].vid = LogCircles.vid
    /\ subjects[1].logs[2].vid = LogEngaged.vid
    /\ Len(LinesOf(timing[1].text).pieces) = 2
    /\ Len(TokensOfLine(LinesOf(timing[1].text).pieces[1]).pieces) = 2
    /\ LinesOf(timing[1].text).pieces[2] = <<>>

\* C20: the summary CSV of a subject with at least one log starts with the
\* header line, which occurs once; every further line is the row of one
\* token of the stimulus-timing file, its correlation and its button rate,
\* in the order of the tokens, so there are as many rows as tokens.
C20_CsvRows ==
    \A s \in 1..Len(csv) :
        csv[s].exists =>
            LET lines == LinesOf(csv[s].text)
                tokens == TokensOf(timing[s].text)
            IN  /\ lines.rest = <<>>
                /\ Len(lines.pieces) = 1 + Len(tokens)
                /\ lines.pieces[1] = CsvHeader
                /\ \A k \in 1..Len(tokens) :
                      lines.pieces[k + 1] =
                          Fields(tokens[k]).r \o <<",">> \o Fields(tokens[k]).p

C20_Witness ==
    /\ main_pc = "done"
    /\ \E s \in 1..Len(csv) :
          /\ Len(subjects[s].logs) = 2
          /\ Len(LinesOf(csv[s].text).pieces) = 4
          /\ LinesOf(csv[s].text).pieces[2] # LinesOf(csv[s].text).pieces[3]
          /\ LinesOf(csv[s].text).pieces[3] # LinesOf(csv[s].text).pieces[4]

----------------------------------------------------------------------------
(* find_ratings, position by position                                      *)

\* C21: for a block with at least one selected response find_ratings never
\* raises, whatever Picture events are missing: it returns a trace and a
\* count.
C21_FallbackNeverRaises ==
    [][(pc = "loop" /\ i < Len(blocks) /\ SelectedBy(i + 1) # <<>>)
          => pc' = "align"]_vars

----------------------------------------------------------------------------
(* Subjects of one batch                                                   *)

Content(f) == [pic |-> f.pic, res |-> f.res, vid |-> f.vid]
\* every log of subject s is one that process_behav_data returns from
Processable(s) ==
    \A k \in 1..Len(subjects[s].logs) :
        Content(subjects[s].logs[k]) \in {LogQuiet, LogEngaged, LogCircles}
HasOutputs(s) ==
    /\ timing[s].exists
    /\ csv[s].exists
    /\ s \in glm
    /\ Len(LinesOf(timing[s].text).pieces) = Len(subjects[s].logs)

\* C22: the files written for a subject depend on that subject's logs only:
\* a subject with processable logs ends with the same timing file, summary
\* CSV and GLM script whatever subjects come before it in the list, among
\* them subjects without logs.  (Alone in the list it ends with all three;
\* the subjects before it have no log that raises.)
C22_IndependentSubjects ==
    Stopped =>
        \A s \in 1..Len(subjects) :
            (/\ subjects[s].kind = "ok"
             /\ subjects[s].logs # <<>>
             /\ \A t \in 1..s : Processable(t))
                => HasOutputs(s)

----------------------------------------------------------------------------
(* dm-qc-report.py: qc_all_scans and submit_qc_jobs                        *)

MaxScans == 3        \* names listed under the nii directory
MaxRand == 2         \* values of random_str(5)

Str_PHA == <<"_", "P", "H", "A", "_">>
\* two human scans (the second without the leading underscore of the
\* phantom tag) and three phantom scans
ScanNames == {<<"S", "_", "0", "1">>, <<"P", "H", "A", "_", "0", "2">>,
              <<"S", "_", "P", "H", "A", "_", "1">>,
              <<"S", "_", "P", "H", "A", "_", "2">>,
              <<"S", "_", "P", "H", "A", "_", "3">>}
\* os.listdir: distinct names in any order
Distinct(l) == \A a, b \in 1..Len(l) : a # b => l[a] # l[b]
ScanListings == {l \in SeqsUpTo(ScanNames, MaxScans) : Distinct(l)}

NoJob == <<>>        \* no job name (jobname not assigned yet, no -hold_jid)

\* lines 272-291: the command line of one subject; the options are those of
\* this invocation and the same for every subject
make_qc_command(subject_id) == [subject |-> subject_id]

\* lines 303-310: the two command lists, in listing order
RECURSIVE ScanLoop(_, _, _, _)
ScanLoop(listing, k, human, phantom) ==
    IF k > Len(listing) THEN [human |-> human, phantom |-> phantom]
    ELSE IF Contains(listing[k], Str_PHA)
    THEN ScanLoop(listing, k + 1, human,
                  Append(phantom, make_qc_command(listing[k])))
    ELSE ScanLoop(listing, k + 1,
                  Append(human, make_qc_command(listing[k])), phantom)

UnchangedByQc == UNCHANGED <<pbd_vars, subjects, sub_i, logs, log_i, main_pc, f1, timing, csv, glm, completed, func_vars, report_vars>>

\* lines 293-310
QcAllScans ==
    /\ qc_pc = "start"
    /\ LET out == ScanLoop(nii_dir, 1, <<>>, <<>>)
       IN  /\ human_commands' = out.human
           /\ phantom_commands' = out.phantom
    /\ qc_pc' = "human"
    /\ UNCHANGED <<nii_dir, commands, chained, cmd_i, jobname, lastjob, qsub,
                   job_state>>
    /\ UnchangedByQc

\* lines 312-314: submit_qc_jobs(human_commands)
SubmitHuman ==
    /\ qc_pc = "human"
    /\ IF human_commands # <<>>
       THEN /\ commands' = human_commands
            /\ chained' = FALSE
            /\ cmd_i' = 0
            /\ jobname' = NoJob
            /\ lastjob' = NoJob
            /\ qc_pc' = "submit_human"
       ELSE /\ qc_pc' = "phantom"
            /\ UNCHANGED <<commands, chained, cmd_i, jobname, lastjob>>
    /\ UNCHANGED <<nii_dir, human_commands, phantom_commands, qsub,
                   job_state>>
    /\ UnchangedByQc

\* lines 316-318: submit_qc_jobs(phantom_commands, chained=True)
SubmitPhantom ==
    /\ qc_pc = "phantom"
    /\ IF phantom_commands # <<>>
       THEN /\ commands' = phantom_commands
            /\ chained' = TRUE
            /\ cmd_i' = 0
            /\ jobname' = NoJob
            /\ lastjob' = NoJob
            /\ qc_pc' = "submit_phantom"
       ELSE /\ qc_pc' = "done"
            /\ UNCHANGED <<commands, chained, cmd_i, jobname, lastjob>>
    /\ UNCHANGED <<nii_dir, human_commands, phantom_commands, qsub,
                   job_state>>
    /\ UnchangedByQc

run_cmd_self(cmd, is_chained, k, last, name) ==
    [cmd |-> cmd, N |-> name,
     hold_jid |-> IF is_chained /\ k > 0 THEN name ELSE NoJob]
\* lines 258-261: the qsub invocation of job k
run_cmd(cmd, is_chained, k, last, name) ==
    [cmd |-> cmd, N |-> name,
     hold_jid |-> IF is_chained /\ k > 0 THEN last ELSE NoJob]

\* lines 253-268: one iteration of the loop of submit_qc_jobs; the job name
\* ends with the index i and holds a random string
SubmitJob ==
    /\ qc_pc \in {"submit_human", "submit_phantom"}
    /\ cmd_i < Len(commands)
    /\ \E r \in 1..MaxRand :
          LET last == IF chained /\ cmd_i > 0 THEN jobname ELSE lastjob
              name == <<r, cmd_i>>
          IN  /\ lastjob' = last
              /\ jobname' = name
              /\ qsub' = Append(qsub, run_cmd(commands[cmd_i + 1], chained,
                                              cmd_i, last, name))
    /\ job_state' = Append(job_state, "queued")
    /\ cmd_i' = cmd_i + 1
    /\ UNCHANGED <<nii_dir, human_commands, phantom_commands, commands,
                   chained, qc_pc>>
    /\ UnchangedByQc

\* the loop of submit_qc_jobs is exhausted
EndSubmit ==
    /\ qc_pc \in {"submit_human", "submit_phantom"}
    /\ cmd_i = Len(commands)
    /\ qc_pc' = IF qc_pc = "submit_human" THEN "phantom" ELSE "done"
    /\ UNCHANGED <<nii_dir, human_commands, phantom_commands, commands,
                   chained, cmd_i, jobname, lastjob, qsub, job_state>>
    /\ UnchangedByQc

\* The queue (qsub -hold_jid, line 259): a queued job becomes eligible once
\* every job with the name it holds on has finished.
JobStarts ==
    /\ \E j \in 1..Len(qsub) :
          /\ job_state[j] = "queued"
          /\ \A k \in 1..Len(qsub) :
                qsub[k].N = qsub[j].hold_jid => job_state[k] = "finished"
          /\ job_state' = [job_state EXCEPT ![j] = "running"]
    /\ UNCHANGED <<nii_dir, human_commands, phantom_commands, commands,
                   chained, cmd_i, jobname, lastjob, qsub, qc_pc>>
    /\ UnchangedByQc
JobEnds ==
    /\ \E j \in 1..Len(qsub) :
          /\ job_state[j] = "running"
          /\ job_state' = [job_state EXCEPT ![j] = "finished"]
    /\ UNCHANGED <<nii_dir, human_commands, phantom_commands, commands,
                   chained, cmd_i, jobname, lastjob, qsub, qc_pc>>
    /\ UnchangedByQc

InitQueue ==
    /\ nii_dir \in ScanListings
    /\ human_commands = <<>>
    /\ phantom_commands = <<>>
    /\ commands = <<>>
    /\ chained = FALSE
    /\ cmd_i = 0
    /\ jobname = NoJob
    /\ lastjob = NoJob
    /\ qsub = <<>>
    /\ job_state = <<>>
    /\ qc_pc = "start"
    /\ InitIdleFunc
    /\ InitIdleReport
    /\ pic = <<>>
    /\ res = <<>>
    /\ vid = <<>>
    /\ trial_type = "vid"
    /\ pc = "idle"
    /\ InitIdleBehav
    /\ subjects = <<>>
    /\ sub_i = 0
    /\ logs = <<>>
    /\ log_i = 0
    /\ main_pc = "idle"
    /\ f1 = Unbound
    /\ timing = <<>>
    /\ csv = <<>>
    /\ glm = {}
    /\ completed = {}

NextQueue ==
    \/ QcAllScans
    \/ SubmitHuman
    \/ SubmitPhantom
    \/ SubmitJob
    \/ EndSubmit
    \/ JobStarts
    \/ JobEnds

SpecQueue == InitQueue /\ [][NextQueue]_vars

PhantomScans == {<<"S", "_", "P", "H", "A", "_", "1">>,
                 <<"S", "_", "P", "H", "A", "_", "2">>,
                 <<"S", "_", "P", "H", "A", "_", "3">>}
\* the listed names of one kind, in listing order
RECURSIVE ScansOf(_, _)
ScansOf(listing, phantom) ==
    IF listing = <<>> THEN <<>>
    ELSE IF (Head(listing) \in PhantomScans) = phantom
    THEN <<Head(listing)>> \o ScansOf(Tail(listing), phantom)
    ELSE ScansOf(Tail(listing), phantom)
Submitted == [j \in 1..Len(qsub) |-> qsub[j].cmd.subject]
IsPrefix(a, b) == Len(a) <= Len(b) /\ SubSeq(b, 1, Len(a)) = a

----------------------------------------------------------------------------
(* dm-qc-report.py: qc_subject, add_report_to_checklist, generate_qc_report *)

Retries == 3         \* add_report_to_checklist's default retry
Ids == {"a", "b"}    \* the full_id of the subjects
Ext_html == <<".", "h", "t", "m", "l">>
Ext_pdf == <<".", "p", "d", "f">>
\* line 704: os.path.join(subject.qc_path, 'qc_{}.html'.format(full_id))
PageName(id) == <<"q", "/", "q", "c", "_", id>> \o Ext_html
Whitespace == {" ", NL}

LastOf(t, c) == IF \E k \in 1..Len(t) : t[k] = c
                THEN CHOOSE k \in 1..Len(t) :
                         t[k] = c /\ \A j \in (k + 1)..Len(t) : t[j] # c
                ELSE 0
\* os.path.basename
basename(path) == SubSeq(path, LastOf(path, "/") + 1, Len(path))
\* os.path.splitext(p)[0]: the extension starts at the last dot, unless only
\* dots precede it in the last component
splitext(path) ==
    LET dot == LastOf(path, ".")
        sep == LastOf(path, "/")
    IN  IF dot > sep /\ \E k \in (sep + 1)..(dot - 1) : path[k] # "."
        THEN SubSeq(path, 1, dot - 1)
        ELSE path
RECURSIVE strip(_)
strip(t) ==
    IF t # <<>> /\ Head(t) \in Whitespace THEN strip(Tail(t))
    ELSE IF t # <<>> /\ t[Len(t)] \in Whitespace
    THEN strip(SubSeq(t, 1, Len(t) - 1))
    ELSE t
\* entry.split(' ')[0]
FirstField(line) ==
    LET sp == Position(line, " ")
    IN  IF sp = 0 THEN line ELSE SubSeq(line, 1, sp - 1)
\* iterating over a text file: the lines with their newline, and the
\* unterminated rest if there is one
FileLines(text) ==
    LET parts == Split(text, NL, 1, <<>>)
    IN  [k \in 1..Len(parts.pieces) |-> Append(parts.pieces[k], NL)]
        \o (IF parts.rest = <<>> THEN <<>> ELSE <<parts.rest>>)
\* lines 322-329
find_existing_reports(text) ==
    LET entries == FileLines(text)
    IN  [k \in 1..Len(entries) |-> splitext(strip(FirstField(entries[k])))]
InSeq(x, l) == \E k \in 1..Len(l) : l[k] = x

\* the checklist at the start: no file, or up to two lines of different
\* report names, a line being a name or a name and a sign-off comment, the
\* last line with or without its newline
EntryOf == [a |-> {<<"q", "c", "_", "a">> \o Ext_html,
                   <<"q", "c", "_", "a">> \o Ext_html \o <<" ", "o", "k">>},
            b |-> {<<"q", "c", "_", "b">> \o Ext_pdf}]
ChecklistTexts ==
    {<<>>}
    \cup UNION {{e \o end : e \in EntryOf[x]} : x \in Ids, end \in {<<>>, <<NL>>}}
    \cup UNION {{e1 \o <<NL>> \o e2 \o end :
                     e1 \in EntryOf[x[1]], e2 \in EntryOf[x[2]]} :
                x \in {y \in Ids \X Ids : y[1] # y[2]},
                end \in {<<>>, <<NL>>}}
Checklists == {[exists |-> FALSE, text |-> <<>>]}
              \cup {[exists |-> TRUE, text |-> t] : t \in ChecklistTexts}
\* the qc_report arguments: nothing, or a page or a pdf of a subject
ReportArgs == {<<>>} \cup {PageName(x) : x \in Ids}
              \cup {<<"q", "c", "_", "a">> \o Ext_pdf}

UnchangedByReport == UNCHANGED <<pbd_vars, subjects, sub_i, logs, log_i, main_pc, f1, timing, csv, glm, completed, func_vars, qc_vars>>

\* a call of add_report_to_checklist that is not made by qc_subject
CallAdd ==
    /\ rep_pc = "idle"
    /\ qc_report' \in ReportArgs
    /\ retry' = Retries
    /\ attempts' = 0
    /\ rep_pc' = "add"
    /\ UNCHANGED <<checklist, html, REWRITE, subject>>
    /\ UnchangedByReport

\* line 768: qc_subject is called for a subject
CallQcSubject ==
    /\ rep_pc = "idle"
    /\ subject' \in Ids
    /\ rep_pc' = "enter"
    /\ UNCHANGED <<checklist, html, REWRITE, qc_report, retry, attempts>>
    /\ UnchangedByReport

\* lines 704-722: the page exists and is kept, or it is removed if it exists
\* and add_report_to_checklist is called
Enter ==
    /\ rep_pc = "enter"
    /\ IF html[subject] # "absent" /\ ~REWRITE
       THEN /\ rep_pc' = "skipped"
            /\ UNCHANGED <<html, qc_report, retry, attempts>>
       ELSE /\ html' = [html EXCEPT ![subject] = "absent"]
            /\ qc_report' = PageName(subject)
            /\ retry' = Retries
            /\ attempts' = 0
            /\ rep_pc' = "add"
    /\ UNCHANGED <<checklist, REWRITE, subject>>
    /\ UnchangedByReport

\* where add_report_to_checklist returns to
AfterAdd == IF subject = "none" THEN "idle" ELSE "generate"
Listed ==
    /\ checklist.exists
    /\ InSeq(splitext(basename(qc_report)), find_existing_reports(checklist.text))
Returns == qc_report = <<>> \/ retry = 0 \/ Listed

\* lines 331-355 and 359: one call of add_report_to_checklist that returns,
\* with or without writing, the calls that called it returning with it
AddReport ==
    /\ rep_pc = "add"
    /\ IF Returns
       THEN UNCHANGED <<checklist, attempts>>
       ELSE /\ checklist' = [exists |-> TRUE,
                             text |-> checklist.text \o basename(qc_report)
                                      \o <<NL>>]
            /\ attempts' = attempts + 1
    /\ rep_pc' = AfterAdd
    /\ UNCHANGED <<html, REWRITE, subject, qc_report, retry>>
    /\ UnchangedByReport

\* lines 353-359: the write raises and the function calls itself
WriteFails ==
    /\ rep_pc = "add"
    /\ ~Returns
    /\ attempts' = attempts + 1
    /\ retry' = retry - 1
    /\ UNCHANGED <<checklist, html, REWRITE, subject, qc_report, rep_pc>>
    /\ UnchangedByReport

\* lines 724-726, 515-521: generate_qc_report writes the page
Generate ==
    /\ rep_pc = "generate"
    /\ html' = [html EXCEPT ![subject] = "complete"]
    /\ rep_pc' = "generated"
    /\ UNCHANGED <<checklist, REWRITE, subject, qc_report, retry, attempts>>
    /\ UnchangedByReport

\* lines 515-523: generate_qc_report raises, before the page is opened or
\* while it is written
GenerateRaises ==
    /\ rep_pc = "generate"
    /\ \E page \in {"absent", "partial"} :
          html' = [html EXCEPT ![subject] = page]
    /\ rep_pc' = "except"
    /\ UNCHANGED <<checklist, REWRITE, subject, qc_report, retry, attempts>>
    /\ UnchangedByReport

RemovePage_keep ==
    /\ rep_pc = "except"
    /\ rep_pc' = "failed"
    /\ UNCHANGED <<checklist, html, REWRITE, subject, qc_report, retry,
                   attempts>>
    /\ UnchangedByReport
\* lines 729-733
RemovePage ==
    /\ rep_pc = "except"
    /\ html' = [html EXCEPT ![subject] = "absent"]
    /\ rep_pc' = "failed"
    /\ UNCHANGED <<checklist, REWRITE, subject, qc_report, retry, attempts>>
    /\ UnchangedByReport

\* lines 709 and 735: qc_subject returns
ReturnQcSubject ==
    /\ rep_pc \in {"skipped", "generated", "failed"}
    /\ rep_pc' = "idle"
    /\ subject' = "none"
    /\ UNCHANGED <<checklist, html, REWRITE, qc_report, retry, attempts>>
    /\ UnchangedByReport

InitReport ==
    /\ checklist \in Checklists
    /\ html \in [Ids -> {"absent", "complete"}]
    /\ REWRITE \in BOOLEAN
    /\ subject = "none"
    /\ qc_report = <<>>
    /\ retry = 0
    /\ attempts = 0
    /\ rep_pc = "idle"
    /\ InitIdleFunc
    /\ InitIdleQc
    /\ pic = <<>>
    /\ res = <<>>
    /\ vid = <<>>
    /\ trial_type = "vid"
    /\ pc = "idle"
    /\ InitIdleBehav
    /\ subjects = <<>>
    /\ sub_i = 0
    /\ logs = <<>>
    /\ log_i = 0
    /\ main_pc = "idle"
    /\ f1 = Unbound
    /\ timing = <<>>
    /\ csv = <<>>
    /\ glm = {}
    /\ completed = {}

NextReport ==
    \/ CallAdd
    \/ CallQcSubject
    \/ Enter
    \/ AddReport
    \/ WriteFails
    \/ Generate
    \/ GenerateRaises
    \/ RemovePage
    \/ ReturnQcSubject

SpecReport == InitReport /\ [][NextReport]_vars

NoDuplicates(text) ==
    LET found == find_existing_reports(text)
    IN  \A a, b \in 1..Len(found) : a # b => found[a] # found[b]
LinesKept == IsPrefix(FileLines(checklist.text), FileLines(checklist'.text))
OnePerName == NoDuplicates(checklist.text) => NoDuplicates(checklist'.text)
ListedUnchanged == (rep_pc = "add" /\ Listed) => checklist' = checklist
AtMostThree == attempts' <= Retries

\* C24: a checklist without duplicates stays without duplicates and its
\* lines are never removed or altered by add_report_to_checklist; a call
\* for a listed report leaves the file unchanged; at most three writes are
\* attempted by one call, which returns without raising.
C24_ChecklistKept ==
    [][LinesKept /\ OnePerName /\ ListedUnchanged /\ AtMostThree]_vars

----------------------------------------------------------------------------
(* find_ratings, position by position                                      *)

\* lines 185-191: the Picture whose rating position k (k = i + 1) takes
PictureAt(picture_list, k) ==
    IF k <= Len(picture_list) THEN picture_list[k]
    ELSE picture_list[Len(picture_list)]

\* the comparison set and the picture list of the block find_ratings has
\* just returned for
BlockResponses ==
    ComparisonSet(Selected(res_final, blocks[i + 1][1], BlkEnd(blocks, i)))
BlockPictures ==
    LET response_list == BlockResponses
    IN  SelectSeq(pic, LAMBDA s : \E k \in 1..Len(response_list) :
                                      s.trial = response_list[k].trial + 1)
RatingsReturned ==
    /\ pc = "align"
    /\ i < Len(blocks)
    /\ Selected(res_final, blocks[i + 1][1], BlkEnd(blocks, i)) # <<>>

\* C25: at every position after the first of the comparison set whose
\* response has a Picture one trial later, the rating is taken from a
\* Picture of that trial.
C25_RatingFromOwnPicture ==
    RatingsReturned =>
        LET response_list == BlockResponses
            picture_list == BlockPictures
        IN  \A k \in 2..Len(response_list) :
                (\E j \in 1..Len(picture_list) :
                     picture_list[j].trial = response_list[k].trial + 1)
                => PictureAt(picture_list, k).trial
                       = response_list[k].trial + 1

\* lines 198-213: the time elapsed at position k, in ticks
DeltaAt(response_list, picture_list, blk_start_time, k) ==
    IF k = 1 THEN picture_list[1].time - blk_start_time
    ELSE IF k <= Len(picture_list)
    THEN picture_list[k].time - picture_list[k - 1].time
    ELSE response_list[k].time - response_list[k - 1].time
Copies(response_list, picture_list, blk_start_time, k) ==
    MaxOf(0, RoundHalfEven(DeltaAt(response_list, picture_list,
                                   blk_start_time, k),
                           TR * TicksPerSecond))
\* the rating resolved at position k
ResolvedAt(picture_list, k) ==
    LET code == PictureAt(picture_list, k).code
    IN  IntOfChar(code[Len(code)])
HeldBefore(picture_list, k) ==
    IF k <= 2 THEN Neutral ELSE ResolvedAt(picture_list, k - 1)

\* C26: the trace is the concatenation, over the positions of the
\* comparison set in order, of round(delta / 2) copies (none when that is
\* not positive) of the rating held before the position: 5 before the
\* first two positions, afterwards the rating resolved one position
\* earlier; the rating resolved at the last position is not in the trace.
C26_HoldAndForward ==
    RatingsReturned =>
        LET response_list == BlockResponses
            picture_list == BlockPictures
        IN  subj_rate.v =
                Concat([k \in 1..Len(response_list) |->
                           Repeat(HeldBefore(picture_list, k),
                                  Copies(response_list, picture_list,
                                         blocks[i + 1][3], k))])

\* a block with a button press whose trace holds a rating other than 5
C26_Witness ==
    /\ RatingsReturned
    /\ Len(BlockResponses) >= 3
    /\ \E k \in 1..Len(subj_rate.v) : subj_rate.v[k] # Neutral

----------------------------------------------------------------------------
(* qc_subject                                                              *)

\* qc_subject is about to return after trying to generate the page
Tried == rep_pc \in {"generated", "failed"}
PageOnlyIfGenerated ==
    Tried => /\ html[subject] # "partial"
             /\ html[subject] = "complete" <=> rep_pc = "generated"
OnChecklist ==
    /\ checklist.exists
    /\ InSeq(splitext(basename(PageName(subject))),
             find_existing_reports(checklist.text))
IsSuffix(a, b) ==
    Len(a) <= Len(b) /\ SubSeq(b, Len(b) - Len(a) + 1, Len(b)) = a
Appended ==
    /\ checklist.exists
    /\ IsSuffix(basename(PageName(subject)) \o <<NL>>, checklist.text)
\* an existing page is kept as it is unless REWRITE is set
SkipChangesNothing ==
    (rep_pc = "enter" /\ html[subject] # "absent" /\ ~REWRITE)
        => (checklist' = checklist /\ html' = html /\ rep_pc' = "skipped")

----------------------------------------------------------------------------
(* process_functional_data: the EA runs                                    *)

MaxRuns == 5         \* EA runs in a subject's nifti folder
Volumes == 277       \* volumes of a complete run
TruncatedLengths == {150}
\* a file of the nifti folder: its name (names are ordered as the numbers
\* are), whether the name holds 'EA' or 'Emp_Acc', and its last dimension
T1File == [name |-> 0, ea |-> FALSE, volumes |-> 1]
RECURSIVE Ascending(_)
Ascending(S) ==
    IF S = {} THEN <<>>
    ELSE LET m == CHOOSE x \in S : \A y \in S : x.name <= y.name
         IN  <<m>> \o Ascending(S \ {m})
Reverse(l) == [k \in 1..Len(l) |-> l[Len(l) + 1 - k]]
\* os.listdir: the T1 and the EA runs, in either order of their names
NiftiListings ==
    UNION {{Ascending({T1File} \cup {[name |-> n, ea |-> TRUE,
                                      volumes |-> f[n]] : n \in names}),
            Reverse(Ascending({T1File} \cup {[name |-> n, ea |-> TRUE,
                                              volumes |-> f[n]] : n \in names}))}
           : names \in SUBSET (1..MaxRuns), f \in [1..MaxRuns -> {Volumes} \cup TruncatedLengths]}

\* list.remove(d): the first element equal to d is removed
RECURSIVE remove(_, _)
remove(l, d) ==
    IF l = <<>> THEN <<>>
    ELSE IF Head(l) = d THEN Tail(l)
    ELSE <<Head(l)>> \o remove(Tail(l), d)
\* lines 469-472: for d in EA_data over the list that the body shortens; the
\* iterator goes on to the next index whatever the body removed
RECURSIVE RemoveLoop(_, _)
RemoveLoop(l, k) ==
    IF k > Len(l) THEN l
    ELSE IF l[k].volumes # Volumes
    THEN RemoveLoop(remove(l, l[k]), k + 1)
    ELSE RemoveLoop(l, k + 1)

UnchangedByFunc == UNCHANGED <<pbd_vars, subjects, sub_i, logs, log_i, main_pc, f1, timing, csv, glm, completed, qc_vars, report_vars>>

\* lines 464-466
FindEA ==
    /\ func_pc = "start"
    /\ EA_data' = Ascending({niftis[k] : k \in {j \in 1..Len(niftis) :
                                                   niftis[j].ea}})
    /\ func_pc' = "remove"
    /\ UNCHANGED niftis
    /\ UnchangedByFunc
\* lines 468-472
RemoveTruncated ==
    /\ func_pc = "remove"
    /\ EA_data' = RemoveLoop(EA_data, 1)
    /\ func_pc' = "last"
    /\ UNCHANGED niftis
    /\ UnchangedByFunc
\* lines 474-475
TakeLastThree ==
    /\ func_pc = "last"
    /\ EA_data' = SubSeq(EA_data, MaxOf(1, Len(EA_data) - 2), Len(EA_data))
    /\ func_pc' = "copy"
    /\ UNCHANGED niftis
    /\ UnchangedByFunc
\* lines 509-515: EA_data[0], EA_data[1], EA_data[2] are copied
CopyRuns ==
    /\ func_pc = "copy"
    /\ func_pc' = IF Len(EA_data) >= 3 THEN "copied" ELSE "IndexError"
    /\ UNCHANGED <<niftis, EA_data>>
    /\ UnchangedByFunc

InitFunctional ==
    /\ niftis \in NiftiListings
    /\ EA_data = <<>>
    /\ func_pc = "start"
    /\ InitIdleQc
    /\ InitIdleReport
    /\ pic = <<>>
    /\ res = <<>>
    /\ vid = <<>>
    /\ trial_type = "vid"
    /\ pc = "idle"
    /\ InitIdleBehav
    /\ subjects = <<>>
    /\ sub_i = 0
    /\ logs = <<>>
    /\ log_i = 0
    /\ main_pc = "idle"
    /\ f1 = Unbound
    /\ timing = <<>>
    /\ csv = <<>>
    /\ glm = {}
    /\ completed = {}

NextFunctional == FindEA \/ RemoveTruncated \/ TakeLastThree \/ CopyRuns

SpecFunctional == InitFunctional /\ [][NextFunctional]_vars

\* C28: once the truncated runs have been removed, every run left in the
\* list, and so every run that is copied, has exactly 277 volumes.
C28_OnlyCompleteRuns ==
    func_pc \in {"last", "copy", "copied", "IndexError"} =>
        \A k \in 1..Len(EA_data) : EA_data[k].volumes = Volumes

----------------------------------------------------------------------------
(* the completion marker                                                   *)

\* the subjects whose marker was written by this run of main
MarkedNow == {s \in completed : subjects[s].kind # "done"}

\* C29: whenever <subject>_complete.log exists, the subject's timing file,
\* summary CSV and GLM script have been completely written.
C29_MarkerMeansFinished == \A s \in MarkedNow : HasOutputs(s)

----------------------------------------------------------------------------
(* the origin of the device clock                                          *)

\* the log with c ticks added to every time field
Shifted(events, c) ==
    [k \in 1..Len(events) |-> [events[k] EXCEPT !.time = @ + c]]
ClockShifts == {TR * TicksPerSecond, 5 * TicksPerSecond}

\* C30: adding the same constant to every time field of the log leaves the
\* block starts, the rating trace and the number of button presses of
\* every block (and so its correlation and button rate) unchanged.
C30_ClockOrigin ==
    RatingsReturned =>
        \A c \in ClockShifts :
            LET parsed == log_parser(Shifted(pic, c), Shifted(res, c),
                                     Shifted(vid, c))
                found == find_blocks(parsed.vid, parsed.mri_start)
                out == find_ratings(parsed.res, parsed.pic, blocks[i + 1][1],
                                    BlkEnd(blocks, i), parsed.mri_start,
                                    found.blocks[i + 1][3])
            IN  /\ parsed.err = "none"
                /\ found.blocks = blocks
                /\ out.err = "none"
                /\ out.n_pushes = n_pushes
                /\ out.ratings = subj_rate.v

====
